---------------------------- MODULE Spec2Model ----------------------------
(***************************************************************************)
(* A model of the selector cache (SelectorCacheManager), of instruction    *)
(* normalisation and of the execution coordinator (PlaywrightAIAgent) of   *)
(* the Playwright AI agent.                                                *)
(*                                                                         *)
(* Strings are sequences of one-character strings, so that normalisation,  *)
(* key construction, prefix tests and splitting are computed as the code   *)
(* computes them.  Characters outside ASCII are named tokens: "a_acute" is *)
(* U+00E1 and "comb_acute" is the combining mark U+0301.                   *)
(***************************************************************************)
EXTENDS Integers, Sequences, FiniteSets, TLC

VARIABLES
    config,      \* SelectorCacheManager.config (fixed at construction)
    cache,       \* SelectorCacheManager.cache, in insertion order
    disk,        \* the cache file last written by saveToDisk
    now,         \* Date.now()
    lastOp,      \* the last cache operation, its key and what it returned
    fails,       \* history: consecutive markFailure calls per key
    trail,       \* history: the markFailure/markSuccess calls per key
    invalidated, \* history: keys deleted by the failure threshold
    normIn,      \* the string handed to normalizeInstruction
    normOnce,    \* normalizeInstruction(normIn)
    normTwice,   \* normalizeInstruction(normalizeInstruction(normIn))
    normPc,      \* position of the normalisation harness
    useSelectorCache, \* PlaywrightAIAgent.useSelectorCache
    page,        \* page.url()
    flows,       \* history: the number of executeFlow calls made
    flow,        \* the parameters of the running executeFlow call
    pc,          \* position of the running executeFlow call
    step,        \* stepNumber in executeFlow
    currentUrl,  \* currentUrl in executeFlow
    decision,    \* decision in executeFlow
    usedCache,   \* usedCache in executeFlow
    error,       \* the error thrown in the running step
    completedSteps, \* completedSteps in executeFlow
    stepResults, \* stepResults in executeFlow
    flowResult,  \* what executeFlow returned, once it has
    executed,    \* history: the actions performed on the page in this step
    llmCalls,    \* history: the planner calls made in this step
    lookupKey,   \* history: the cache key find and set used in this step
    firstLookup, \* history: the step's first analysis: its key and its source
    waited,      \* history: the stabilization waits that have elapsed in this flow
    \* the test runner's runFlow
    runDef,          \* the flow definition and the runner's stopOnError
    runPc,           \* where runFlow is
    agentResult,     \* what executeFlow returned to runFlow
    runStepResults,  \* runFlow's stepResults
    runError,        \* the message of the exception runFlow has caught
    runResult,       \* the FlowExecutionResult runFlow returns
    runTimeout,      \* definition.timeout, in units of 30 seconds
    runElapsed,      \* the time executeFlow took, in the same units
    \* FileLock
    locks,           \* the map of the lock: for each path the promise in it
    lockPc,          \* for each caller of withLock, where it is
    lockPath,        \* for each caller, the path it asked for
    awaiting,        \* for each caller that waits, the promise it awaits
    settled,         \* the lock promises that have been resolved
    \* runInPool
    tasks,           \* the tasks given to the pool
    maxWorkers,      \* options.maxWorkers
    currentIndex,    \* the index of the next task to take (from 0)
    running,         \* the pairs <<worker, task>> of the tasks being executed
    exited,          \* the workers whose loop has ended
    poolResults,     \* the results array, in the order of completion
    completed,       \* the counter of completed tasks
    poolPc,          \* where runInPool is
    poolReturn,      \* what runInPool returns
    runCount,        \* history: for each task, the times execute was called
    \* findElementByDescription
    agentKind,       \* which agent's resolver runs: core/agent.ts or ai-agent.ts
    hint,            \* description
    document,        \* the elements of the page, in document order
    matches,         \* nameMatch, idMatch, ... and descLower
    attempt,         \* attempt
    strategyIdx,     \* the index of the strategy the inner loop is at
    resolvePc,       \* where findElementByDescription is
    resolved,        \* the element returned (its index in dom)
    resolvedBy,      \* history: the strategy whose element was returned
    resolveError,    \* the message of the error thrown
    resolveWaits,    \* history: the waits between attempts
    tried,           \* history: the strategies run and what came of each
    \* the cache file across managers
    storage,         \* whether the file system answers or fails
    saved,           \* history: the entries in memory at the last write that succeeded
    reloaded,        \* history: what saved was when the manager was constructed
    loadHow,         \* history: what loadFromDisk met in the constructor
    setSince,        \* history: the keys set since the manager was constructed
    lastWrite,       \* history: how the last writeFileSync ended
    intended,        \* history: the entries the last operation leaves in memory
    opError,         \* the error that left the last operation
    restarted,       \* history: whether a second manager has been constructed
    ops,             \* history: the operations made, constructions apart
    \* Semaphore
    semSize,         \* the permits the semaphore was constructed with
    permits,         \* this.permits
    waiters,         \* this.waiters: the callers whose acquire is pending
    semPc,           \* for each caller of withPermit, where it is
    \* the managers of the parallel workers on one cache file
    managers,        \* for each worker's manager, whether it is built and its this.cache
    fileLock,        \* the managers whose saveToDisk holds the lock of the file
    saveWaiters,     \* the managers whose saveToDisk waits for the lock
    kept             \* history: the keys set by a manager and not deleted since

cacheVars == <<config, cache, disk, now, lastOp, fails, trail, invalidated>>
normVars  == <<normIn, normOnce, normTwice, normPc>>
flowVars  ==
    <<useSelectorCache, page, flows, flow, pc, step, currentUrl, decision,
      usedCache, error, completedSteps, stepResults, flowResult, executed,
      llmCalls, lookupKey, firstLookup, waited>>
runVars   == <<runDef, runPc, agentResult, runStepResults, runError, runResult,
               runTimeout, runElapsed>>
lockVars  == <<locks, lockPc, lockPath, awaiting, settled>>
poolVars  ==
    <<tasks, maxWorkers, currentIndex, running, exited, poolResults, completed,
      poolPc, poolReturn, runCount>>
resolveVars ==
    <<agentKind, hint, document, matches, attempt, strategyIdx, resolvePc, resolved,
      resolvedBy, resolveError, resolveWaits, tried>>
persistVars ==
    <<storage, saved, reloaded, loadHow, setSince, lastWrite, intended, opError,
      restarted, ops>>
semVars   == <<semSize, permits, waiters, semPc>>
shareVars == <<managers, fileLock, saveWaiters, kept>>
extraVars == <<semVars, shareVars>>
moreVars  == <<resolveVars, persistVars, extraVars>>
harnessVars == <<runVars, lockVars, poolVars, moreVars>>
vars      == <<cacheVars, normVars, flowVars, harnessVars>>

(***************************************************************************)
(* Bounds of the model.                                                    *)
(***************************************************************************)
MaxTime == 2
MaxConfigSize == 2
MaxConfigTTL == 1
MaxConfigFailures == 2
MaxSuccessCount == 2
MaxLen == 5
MaxFlows == 2

(***************************************************************************)
(* Strings.                                                                *)
(***************************************************************************)
\* String.prototype.startsWith
StartsWith(s, p) ==
    /\ Len(p) <= Len(s)
    /\ SubSeq(s, 1, Len(p)) = p

\* Position of the first occurrence of sep in s at or after i; 0 if none
RECURSIVE IndexFrom(_, _, _)
IndexFrom(s, sep, i) ==
    IF i + Len(sep) - 1 > Len(s) THEN 0
    ELSE IF SubSeq(s, i, i + Len(sep) - 1) = sep THEN i
    ELSE IndexFrom(s, sep, i + 1)

\* String.prototype.split with a non-empty separator string
RECURSIVE Split(_, _)
Split(s, sep) ==
    LET i == IndexFrom(s, sep, 1)
    IN  IF i = 0 THEN <<s>>
        ELSE <<SubSeq(s, 1, i - 1)>> \o Split(SubSeq(s, i + Len(sep), Len(s)), sep)

RECURSIVE FlatMap(_, _)
FlatMap(F(_), s) ==
    IF s = <<>> THEN <<>> ELSE F(Head(s)) \o FlatMap(F, Tail(s))

(***************************************************************************)
(* Characters.                                                             *)
(***************************************************************************)
LowerOf(c) == CASE c = "A" -> "a" [] c = "B" -> "b" [] OTHER -> c

\* canonical decomposition of one character
Decompose(c) ==
    CASE c = "a_acute" -> <<"a", "comb_acute">>
      [] c = "n_tilde" -> <<"n", "comb_tilde">>
      [] OTHER -> <<c>>

\* the combining marks U+0300 to U+036F
IsCombining(c) == c \in {"comb_acute", "comb_tilde"}

\* \s
IsSpace(c) == c \in {" ", "TAB"}

\* \w, that is [A-Za-z0-9_]
IsWord(c) ==
    c \in {"a", "b", "c", "d", "e", "f", "g", "n", "x", "y", "z",
           "A", "B", "0", "1", "_"}

\* .replace(/\s+/g, ' '): every maximal run of whitespace becomes one space
RECURSIVE CollapseSpaces(_)
CollapseSpaces(s) ==
    IF s = <<>> THEN <<>>
    ELSE IF IsSpace(Head(s))
         THEN IF Len(s) > 1 /\ IsSpace(s[2])
              THEN CollapseSpaces(Tail(s))
              ELSE <<" ">> \o CollapseSpaces(Tail(s))
         ELSE <<Head(s)>> \o CollapseSpaces(Tail(s))

RECURSIVE TrimStart(_)
TrimStart(s) ==
    IF s # <<>> /\ IsSpace(Head(s)) THEN TrimStart(Tail(s)) ELSE s

RECURSIVE TrimEnd(_)
TrimEnd(s) ==
    IF s # <<>> /\ IsSpace(s[Len(s)]) THEN TrimEnd(SubSeq(s, 1, Len(s) - 1)) ELSE s

\* String.prototype.trim
Trim(s) == TrimEnd(TrimStart(s))

\* the steps of normalizeInstruction, in the order the code applies them
ToLowerCase(s) == [i \in 1..Len(s) |-> LowerOf(s[i])]
NormalizeNFD(s) == FlatMap(Decompose, s)
StripAccents(s) == SelectSeq(s, LAMBDA c : ~IsCombining(c))
StripPunctuation(s) == SelectSeq(s, LAMBDA c : IsWord(c) \/ IsSpace(c))

normalizeInstruction(instruction) ==
    Trim(StripPunctuation(CollapseSpaces(StripAccents(NormalizeNFD(ToLowerCase(instruction))))))

(***************************************************************************)
(* URLs.  A URL is kept parsed: [valid, host, path, query]; a string the   *)
(* URL constructor rejects is [valid |-> FALSE, path |-> the string].      *)
(***************************************************************************)
Url(host, path, query) == [valid |-> TRUE, host |-> host, path |-> path, query |-> query]
RawUrl(text) == [valid |-> FALSE, host |-> "", path |-> text, query |-> ""]

extractUrlPattern(url) == url.path

KeySeparator == <<":", ":">>


(***************************************************************************)
(* The selector cache.  The cache object is a sequence of entries in       *)
(* insertion order (the order Object.entries yields): assigning to a key   *)
(* that is present keeps its place, assigning to a new key appends.        *)
(***************************************************************************)
NoValue == "undefined"
NoKey == <<>>
NoEntry ==
    [key |-> NoKey, actions |-> <<>>, reasoning |-> "", timestamp |-> 0,
     lastSuccess |-> 0, successCount |-> 0, failureCount |-> 0]

AppVersion == "1.0.0"
SimilarityThresholdPct == 85
EvictPercent == 20

Configs ==
    [maxSize : 1..MaxConfigSize,
     defaultTTL : 1..MaxConfigTTL,
     maxFailures : 1..MaxConfigFailures,
     similarityThresholdPct : {SimilarityThresholdPct},
     appVersion : {AppVersion}]

Keys(c) == {c[i].key : i \in 1..Len(c)}
Has(c, key) == key \in Keys(c)
IndexOf(c, key) == CHOOSE i \in 1..Len(c) : c[i].key = key
Get(c, key) == IF Has(c, key) THEN c[IndexOf(c, key)] ELSE NoEntry
\* delete this.cache[key]
Delete(c, key) == SelectSeq(c, LAMBDA e : e.key # key)
\* this.cache[key] = entry
Put(c, entry) ==
    IF Has(c, entry.key)
    THEN [c EXCEPT ![IndexOf(c, entry.key)] = entry]
    ELSE Append(c, entry)

\* the words of a string that are longer than 2 characters, as a set
LongWords(str) ==
    LET words == Split(str, <<" ">>)
    IN  {words[i] : i \in {j \in 1..Len(words) : Len(words[j]) > 2}}

\* the Dice coefficient, as the fraction num / den
calculateSimilarity(str1, str2) ==
    LET words1 == LongWords(str1)
        words2 == LongWords(str2)
    IN  IF words1 = {} /\ words2 = {} THEN [num |-> 1, den |-> 1]
        ELSE IF words1 = {} \/ words2 = {} THEN [num |-> 0, den |-> 1]
        ELSE [num |-> 2 * Cardinality(words1 \cap words2),
              den |-> Cardinality(words1) + Cardinality(words2)]

\* similarity >= this.config.similarityThreshold
AtLeastThreshold(similarity, cfg) ==
    similarity.num * 100 >= cfg.similarityThresholdPct * similarity.den

\* a plausible slip: the age is measured from the last success
isExpired_fromLastSuccess(entry, t, cfg) ==
    t - entry.lastSuccess > cfg.defaultTTL

isExpired(entry, t, cfg) ==
    t - entry.timestamp > cfg.defaultTTL

\* entry.failureCount >= this.config.maxFailures
overFailures(entry, cfg) ==
    entry.failureCount >= cfg.maxFailures

\* Math.floor(this.config.maxSize * 0.2)
toRemove(cfg) == (cfg.maxSize * EvictPercent) \div 100

\* position of entry i after entries.sort by lastSuccess (the sort is stable)
SortRank(c, i) ==
    Cardinality({j \in 1..Len(c) :
        \/ c[j].lastSuccess < c[i].lastSuccess
        \/ c[j].lastSuccess = c[i].lastSuccess /\ j < i})

enforceMaxSize(c, cfg) ==
    IF Len(c) >= cfg.maxSize
    THEN SelectSeq(c, LAMBDA e : SortRank(c, IndexOf(c, e.key)) >= toRemove(cfg))
    ELSE c

\* the entry that set stores
freshEntry(key, actions, reasoning, t) ==
    [key |-> key, actions |-> actions, reasoning |-> reasoning, timestamp |-> t,
     lastSuccess |-> t, successCount |-> 1, failureCount |-> 0]

\* a plausible slip: a success renews the entry
successEntry_renews(entry, t) ==
    [entry EXCEPT !.successCount = @ + 1, !.lastSuccess = t, !.failureCount = 0,
                  !.timestamp = t]

\* a plausible slip: the failure counter is kept on success
successEntry_keepFailures(entry, t) ==
    [entry EXCEPT !.successCount = @ + 1, !.lastSuccess = t]

\* the entry after markSuccess
successEntry(entry, t) ==
    [entry EXCEPT !.successCount = @ + 1, !.lastSuccess = t, !.failureCount = 0]

\* a plausible slip: the threshold is compared with > in markFailure
failureInvalidates_strict(entry, cfg) ==
    entry.failureCount + 1 > cfg.maxFailures

\* markFailure: whether the incremented counter reaches the threshold
failureInvalidates(entry, cfg) ==
    entry.failureCount + 1 >= cfg.maxFailures

\* the entries cleanup deletes
cleanupRemoves(c, t, cfg) ==
    {c[i].key : i \in {j \in 1..Len(c) :
        t - c[j].timestamp > cfg.defaultTTL \/ c[j].failureCount >= cfg.maxFailures}}

\* the file saveToDisk writes (createdAt and lastModified are never read back)
CachedActionFields == {"selector", "actionType", "description", "value"}
\* JSON.stringify leaves out the members whose value is undefined
stringifyAction(a) == [f \in {g \in DOMAIN a : a[g] # NoValue} |-> a[f]]
\* a member that is not in the text is undefined in the object
parseAction_noValue(j) ==
    [f \in CachedActionFields |-> IF f \in DOMAIN j /\ f # "value" THEN j[f] ELSE NoValue]
parseAction(j) == [f \in CachedActionFields |-> IF f \in DOMAIN j THEN j[f] ELSE NoValue]

\* one member of entries: the key and the CachedSelector under it
stringifyEntry(e) ==
    [key |-> e.key,
     value |-> [actions |-> [i \in 1..Len(e.actions) |-> stringifyAction(e.actions[i])],
                reasoning |-> e.reasoning, timestamp |-> e.timestamp,
                lastSuccess |-> e.lastSuccess, successCount |-> e.successCount,
                failureCount |-> e.failureCount]]
parseEntry(m) ==
    [key |-> m.key,
     actions |-> [i \in 1..Len(m.value.actions) |-> parseAction(m.value.actions[i])],
     reasoning |-> m.value.reasoning, timestamp |-> m.value.timestamp,
     lastSuccess |-> m.value.lastSuccess, successCount |-> m.value.successCount,
     failureCount |-> m.value.failureCount]
parseEntries(members) == [i \in 1..Len(members) |-> parseEntry(members[i])]

\* the file writeFileSync leaves: JSON.stringify of version and entries
saveToDisk(c, cfg) ==
    [exists |-> TRUE, version |-> cfg.appVersion,
     entries |-> [i \in 1..Len(c) |-> stringifyEntry(c[i])], readable |-> TRUE]
NoFile == [exists |-> FALSE, version |-> "", entries |-> <<>>, readable |-> TRUE]

(***************************************************************************)
(* The inputs the cache operations are called with.                        *)
(***************************************************************************)
PathP == <<"/", "p">>
PathQ == <<"/", "q">>
UrlP == Url("h", PathP, "")
UrlPx == Url("h", PathP, "?x=1")
UrlQ == Url("h", PathQ, "")

InstrAbcDe == <<"a", "b", "c", " ", "d", "e">>
InstrAbcDeLoud == <<"A", "b", "c", " ", " ", "d", "e", ",">>
InstrAbc == <<"a", "b", "c">>
InstrXyz == <<"x", "y", "z">>
\* instructions without a word of more than two characters
InstrAb == <<"a", "b">>
InstrDe == <<"d", "e">>

\* a page whose path holds the separator of the keys: new URL() keeps the
\* colons of a pathname
PathPAbc == <<"/", "p", ":", ":", "a", "b", "c">>
UrlPAbc == Url("h", PathPAbc, "")

\* the (url, instruction) pairs the cache operations are called with
CacheCalls ==
    {<<UrlP, InstrAbcDe>>, <<UrlPx, InstrAbcDeLoud>>, <<UrlP, InstrAbc>>}

FillEmail ==
    [selector |-> "name='email'", actionType |-> "fill",
     description |-> "fill email", value |-> "a@b.com"]
ClickLogin ==
    [selector |-> "text 'Login'", actionType |-> "click",
     description |-> "click login", value |-> NoValue]
CachedPlans == {<<FillEmail, ClickLogin>>}

\* the calls that fill a cache to its limit, in the order they are made, and
\* one call more
EvictOrder ==
    <<<<UrlP, InstrAbcDe>>, <<UrlP, InstrAbc>>, <<UrlQ, InstrAbcDe>>,
      <<UrlQ, InstrAbc>>, <<UrlP, InstrXyz>>, <<UrlQ, InstrXyz>>>>
EvictCalls == {EvictOrder[i] : i \in 1..Len(EvictOrder)}

\* the calls of the harness of the fuzzy scan
FuzzyCalls ==
    {<<UrlP, InstrAbc>>, <<UrlP, InstrAbcDe>>, <<UrlPAbc, InstrXyz>>,
     <<UrlP, InstrAb>>, <<UrlP, InstrDe>>}
\* the calls that store an entry in that harness
FuzzyStored == {<<UrlP, InstrAbc>>, <<UrlPAbc, InstrXyz>>, <<UrlP, InstrAb>>}
MaxFuzzyEntries == 2

\* every (url, instruction) pair some operation of the model is called with
ModelCalls == CacheCalls \cup EvictCalls \cup FuzzyCalls

\* normalizeInstruction, tabulated once for the instructions of the model
NormalizedInstructions ==
    [i \in {c[2] : c \in ModelCalls} |-> normalizeInstruction(i)]

\* generateCacheKey, tabulated once for the calls of the model
CacheKeys ==
    [c \in ModelCalls |->
        extractUrlPattern(c[1]) \o KeySeparator \o NormalizedInstructions[c[2]]]

generateCacheKey(url, instruction) == CacheKeys[<<url, instruction>>]

KeyUniverse == {CacheKeys[c] : c \in ModelCalls}

\* a plausible slip: the fuzzy scan does not skip expired or failed entries
FuzzyMatches_noSkip(c, url, instruction, t, cfg) ==
    LET urlPattern == extractUrlPattern(url)
        normalizedInstruction == NormalizedInstructions[instruction]
    IN  {i \in 1..Len(c) :
            /\ StartsWith(c[i].key, urlPattern \o KeySeparator)
            /\ AtLeastThreshold(
                   calculateSimilarity(normalizedInstruction,
                                       Split(c[i].key, KeySeparator)[2]), cfg)}

\* the candidates of the fuzzy scan that match, in iteration order
FuzzyMatches(c, url, instruction, t, cfg) ==
    LET urlPattern == extractUrlPattern(url)
        normalizedInstruction == NormalizedInstructions[instruction]
    IN  {i \in 1..Len(c) :
            /\ StartsWith(c[i].key, urlPattern \o KeySeparator)
            /\ ~(isExpired(c[i], t, cfg) \/ overFailures(c[i], cfg))
            /\ AtLeastThreshold(
                   calculateSimilarity(normalizedInstruction,
                                       Split(c[i].key, KeySeparator)[2]), cfg)}

SetMin(S) == CHOOSE x \in S : \A y \in S : x <= y

\* a plausible slip: the fuzzy scan runs before the exact-key lookup
findOutcome_fuzzyFirst(c, url, instruction, t, cfg) ==
    LET exactKey == generateCacheKey(url, instruction)
        entry == Get(c, exactKey)
        fuzzy == FuzzyMatches(c, url, instruction, t, cfg)
    IN  IF fuzzy # {}
        THEN [entry |-> c[SetMin(fuzzy)], how |-> "fuzzy", cache |-> c]
        ELSE IF Has(c, exactKey)
        THEN IF isExpired(entry, t, cfg)
             THEN [entry |-> NoEntry, how |-> "expired", cache |-> Delete(c, exactKey)]
             ELSE IF overFailures(entry, cfg)
             THEN [entry |-> NoEntry, how |-> "failures", cache |-> Delete(c, exactKey)]
             ELSE [entry |-> entry, how |-> "exact", cache |-> c]
        ELSE [entry |-> NoEntry, how |-> "miss", cache |-> c]

\* find: the entry returned, the branch taken and the cache it leaves
findOutcome(c, url, instruction, t, cfg) ==
    LET exactKey == generateCacheKey(url, instruction)
        entry == Get(c, exactKey)
        fuzzy == FuzzyMatches(c, url, instruction, t, cfg)
    IN  IF Has(c, exactKey)
        THEN IF isExpired(entry, t, cfg)
             THEN [entry |-> NoEntry, how |-> "expired", cache |-> Delete(c, exactKey)]
             ELSE IF overFailures(entry, cfg)
             THEN [entry |-> NoEntry, how |-> "failures", cache |-> Delete(c, exactKey)]
             ELSE [entry |-> entry, how |-> "exact", cache |-> c]
        ELSE IF fuzzy # {}
             THEN [entry |-> c[SetMin(fuzzy)], how |-> "fuzzy", cache |-> c]
             ELSE [entry |-> NoEntry, how |-> "miss", cache |-> c]

\* history kept only for the keys that are present
Resync(f, c, zero) == [k \in KeyUniverse |-> IF Has(c, k) THEN f[k] ELSE zero]

\* the trail of a key after one more markFailure: "F" is failures only, "FS" a
\* success after a failure, "FSF" failures after that success
FailureTrail(t) == IF t \in {"FS", "FSF"} THEN "FSF" ELSE "F"

\* the cache each mutating operation leaves
setResult(c, url, instruction, actions, reasoning, t, cfg) ==
    Put(enforceMaxSize(c, cfg),
        freshEntry(generateCacheKey(url, instruction), actions, reasoning, t))

markSuccessResult(c, url, instruction, t) ==
    LET key == generateCacheKey(url, instruction)
    IN  IF Has(c, key) THEN Put(c, successEntry(Get(c, key), t)) ELSE c

markFailureResult(c, url, instruction, cfg) ==
    LET key == generateCacheKey(url, instruction)
        entry == Get(c, key)
    IN  IF ~Has(c, key) THEN c
        ELSE IF failureInvalidates(entry, cfg) THEN Delete(c, key)
        ELSE Put(c, [entry EXCEPT !.failureCount = @ + 1])

\* a plausible slip: invalidate leaves the entry in the cache
invalidateResult_kept(c, url, instruction) == c

invalidateResult(c, url, instruction) ==
    Delete(c, generateCacheKey(url, instruction))

\* the file after an operation that saves when it has changed the cache
savedIfChanged(d, c, after, cfg) ==
    IF after # c THEN saveToDisk(after, cfg) ELSE d

Op(op, key, ret, entry, how, nth) ==
    [op |-> op, key |-> key, ret |-> ret, entry |-> entry, how |-> how, nth |-> nth]

(***************************************************************************)
(* The operations of SelectorCacheManager.                                 *)
(***************************************************************************)
CacheInit ==
    /\ config \in Configs
    /\ cache = <<>>
    /\ disk = NoFile
    /\ now = 0
    /\ lastOp = Op("new", NoKey, FALSE, NoEntry, "", 0)
    /\ fails = [k \in KeyUniverse |-> 0]
    /\ trail = [k \in KeyUniverse |-> ""]
    /\ invalidated = {}

find(url, instruction) ==
    LET out == findOutcome(cache, url, instruction, now, config)
    IN  /\ cache' = out.cache
        /\ disk' = IF out.how \in {"expired", "failures"}
                   THEN saveToDisk(out.cache, config) ELSE disk
        /\ lastOp' = Op("find", generateCacheKey(url, instruction),
                        out.entry # NoEntry, out.entry, out.how, 0)
        /\ fails' = Resync(fails, out.cache, 0)
        /\ trail' = Resync(trail, out.cache, "")
        /\ UNCHANGED <<config, now, invalidated>>

set(url, instruction, actions, reasoning) ==
    LET key == generateCacheKey(url, instruction)
        after == setResult(cache, url, instruction, actions, reasoning, now, config)
    IN  /\ cache' = after
        /\ disk' = saveToDisk(after, config)
        /\ lastOp' = Op("set", key, TRUE, NoEntry,
                        IF Len(cache) >= config.maxSize THEN "lru" ELSE "", 0)
        /\ fails' = [Resync(fails, after, 0) EXCEPT ![key] = 0]
        /\ trail' = [Resync(trail, after, "") EXCEPT ![key] = ""]
        /\ invalidated' = invalidated \ {key}
        /\ UNCHANGED <<config, now>>

markSuccess(url, instruction) ==
    LET key == generateCacheKey(url, instruction)
    IN  IF Has(cache, key)
        THEN /\ cache' = markSuccessResult(cache, url, instruction, now)
             /\ disk' = saveToDisk(cache', config)
             /\ lastOp' = Op("markSuccess", key, TRUE, NoEntry, "", 0)
             /\ fails' = [fails EXCEPT ![key] = 0]
             /\ trail' = [trail EXCEPT ![key] = IF @ \in {"F", "FSF"} THEN "FS" ELSE ""]
             /\ UNCHANGED <<config, now, invalidated>>
        ELSE /\ lastOp' = Op("markSuccess", key, FALSE, NoEntry, "", 0)
             /\ UNCHANGED <<config, cache, disk, now, fails, trail, invalidated>>

markFailure(url, instruction) ==
    LET key == generateCacheKey(url, instruction)
        entry == Get(cache, key)
    IN  IF Has(cache, key)
        THEN IF failureInvalidates(entry, config)
             THEN /\ cache' = markFailureResult(cache, url, instruction, config)
                  /\ disk' = saveToDisk(cache', config)
                  /\ lastOp' = Op("markFailure", key, TRUE, NoEntry,
                                  FailureTrail(trail[key]), fails[key] + 1)
                  /\ fails' = [fails EXCEPT ![key] = 0]
                  /\ trail' = [trail EXCEPT ![key] = ""]
                  /\ invalidated' = invalidated \cup {key}
                  /\ UNCHANGED <<config, now>>
             ELSE /\ cache' = markFailureResult(cache, url, instruction, config)
                  /\ disk' = saveToDisk(cache', config)
                  /\ lastOp' = Op("markFailure", key, FALSE, NoEntry,
                                  FailureTrail(trail[key]), fails[key] + 1)
                  /\ fails' = [fails EXCEPT ![key] = @ + 1]
                  /\ trail' = [trail EXCEPT ![key] = FailureTrail(@)]
                  /\ UNCHANGED <<config, now, invalidated>>
        ELSE /\ lastOp' = Op("markFailure", key, FALSE, NoEntry, "absent", 0)
             /\ UNCHANGED <<config, cache, disk, now, fails, trail, invalidated>>

invalidate(url, instruction) ==
    LET key == generateCacheKey(url, instruction)
    IN  /\ cache' = invalidateResult(cache, url, instruction)
        /\ disk' = IF Has(cache, key) THEN saveToDisk(cache', config) ELSE disk
        /\ lastOp' = Op("invalidate", key, Has(cache, key), NoEntry, "", 0)
        /\ fails' = Resync(fails, cache', 0)
        /\ trail' = Resync(trail, cache', "")
        /\ UNCHANGED <<config, now, invalidated>>

cleanup ==
    LET gone == cleanupRemoves(cache, now, config)
    IN  /\ cache' = SelectSeq(cache, LAMBDA e : e.key \notin gone)
        /\ disk' = IF gone # {} THEN saveToDisk(cache', config) ELSE disk
        /\ lastOp' = Op("cleanup", NoKey, gone # {}, NoEntry, "", Cardinality(gone))
        /\ fails' = Resync(fails, cache', 0)
        /\ trail' = Resync(trail, cache', "")
        /\ UNCHANGED <<config, now, invalidated>>

clear ==
    /\ cache' = <<>>
    /\ disk' = saveToDisk(<<>>, config)
    /\ lastOp' = Op("clear", NoKey, TRUE, NoEntry, "", 0)
    /\ fails' = Resync(fails, <<>>, 0)
    /\ trail' = Resync(trail, <<>>, "")
    /\ UNCHANGED <<config, now, invalidated>>

\* time passes
Tick ==
    /\ now < MaxTime
    /\ now' = now + 1
    /\ lastOp' = Op("tick", NoKey, FALSE, NoEntry, "", 0)
    /\ UNCHANGED <<config, cache, disk, fails, trail, invalidated>>

(***************************************************************************)
(* The normalisation harness: one string, normalised once and twice.       *)
(***************************************************************************)
Alphabet == {"a", "B", "a_acute", " ", "TAB", ","}
Strings == UNION {[1..n -> Alphabet] : n \in 0..MaxLen}

NormInit ==
    /\ normIn \in Strings
    /\ normOnce = <<>>
    /\ normTwice = <<>>
    /\ normPc = "start"

NormIdle ==
    /\ normIn = <<>>
    /\ normOnce = <<>>
    /\ normTwice = <<>>
    /\ normPc = "idle"

NormalizeOnce ==
    /\ normPc = "start"
    /\ normOnce' = normalizeInstruction(normIn)
    /\ normPc' = "once"
    /\ UNCHANGED <<normIn, normTwice>>

NormalizeTwice ==
    /\ normPc = "once"
    /\ normTwice' = normalizeInstruction(normOnce)
    /\ normPc' = "twice"
    /\ UNCHANGED <<normIn, normOnce>>

(***************************************************************************)
(* The eviction harness: a cache whose limit is the smallest for which the *)
(* share that enforceMaxSize removes is not zero.  It is filled key by     *)
(* key, entries are confirmed and time passes in between, and then one     *)
(* more set is made, of a stored key or of a new one.                      *)
(***************************************************************************)
EvictSize == 100 \div EvictPercent

EvictConfig ==
    [maxSize |-> EvictSize, defaultTTL |-> MaxTime + 1, maxFailures |-> 1,
     similarityThresholdPct |-> SimilarityThresholdPct, appVersion |-> AppVersion]

EvictInit ==
    /\ config = EvictConfig
    /\ cache = <<>>
    /\ disk = NoFile
    /\ now = 0
    /\ lastOp = Op("new", NoKey, FALSE, NoEntry, "", 0)
    /\ fails = [k \in KeyUniverse |-> 0]
    /\ trail = [k \in KeyUniverse |-> ""]
    /\ invalidated = {}

EvictFill ==
    /\ lastOp.how # "lru"
    /\ Len(cache) < config.maxSize
    /\ LET c == EvictOrder[Len(cache) + 1]
       IN  set(c[1], c[2], <<FillEmail, ClickLogin>>, "r")

EvictConfirm ==
    /\ lastOp.how # "lru"
    /\ \E i \in 1..Len(cache) :
          /\ cache[i].lastSuccess < now
          /\ markSuccess(EvictOrder[i][1], EvictOrder[i][2])

EvictTick ==
    /\ lastOp.how # "lru"
    /\ Tick

EvictSet ==
    /\ lastOp.how # "lru"
    /\ Len(cache) >= config.maxSize
    /\ \E c \in EvictCalls : set(c[1], c[2], <<ClickLogin>>, "r")

(***************************************************************************)
(* The execution coordinator: PlaywrightAIAgent.executeFlow.  The planner  *)
(* and the page are the environment: the planner answers with a plan, an   *)
(* empty plan or text that is not JSON; an action on the page succeeds or  *)
(* throws, and a click may navigate to the other page.                     *)
(***************************************************************************)
\* AIAction, as the planner returns it
AIFillEmail ==
    [type |-> "fill", description |-> "fill email", locator |-> "name='email'",
     value |-> "a@b.com", verifications |-> NoValue]
AIClickLogin ==
    [type |-> "click", description |-> "click login", locator |-> "text 'Login'",
     value |-> NoValue, verifications |-> NoValue]
AIVerifyMenu ==
    [type |-> "verifyAll", description |-> "verify menu", locator |-> "",
     value |-> NoValue, verifications |-> "menu"]

\* an action whose type is none of those of AIAction
AIHover ==
    [type |-> "hover", description |-> "hover menu", locator |-> "text 'Menu'",
     value |-> NoValue, verifications |-> NoValue]

\* an action descriptor without the locator AIAction requires
AIBare ==
    [type |-> "click", description |-> "click login", locator |-> NoValue,
     value |-> NoValue, verifications |-> NoValue]

\* the types of AIAction
ActionTypes == {"fill", "click", "press", "wait", "verify", "verifyAll"}

\* a plan whose first action may navigate, a plan of one action that cannot
\* fail, the empty plan, a plan with an action of an unknown type, and a plan
\* whose action lacks a required field
PlannerPlans ==
    {<<AIClickLogin, AIFillEmail>>, <<AIVerifyMenu>>, <<>>, <<AIHover>>, <<AIBare>>}

\* what the provider may answer: a JSON text with an actions list, a text
\* JSON.parse rejects, a JSON text without an actions list, or an exception
PlannerResponses ==
    {[thrown |-> FALSE, valid |-> TRUE, shaped |-> TRUE, actions |-> p,
      reasoning |-> "r"] : p \in PlannerPlans}
    \cup {[thrown |-> FALSE, valid |-> FALSE, shaped |-> FALSE, actions |-> <<>>,
           reasoning |-> ""],
          [thrown |-> FALSE, valid |-> TRUE, shaped |-> FALSE, actions |-> <<>>,
           reasoning |-> "r"],
          [thrown |-> TRUE, valid |-> FALSE, shaped |-> FALSE, actions |-> <<>>,
           reasoning |-> ""]}

\* a plausible slip: the locator is taken from the description
fromCachedAction_swapped(action) ==
    [type |-> action.actionType, description |-> action.selector,
     locator |-> action.description, value |-> action.value,
     verifications |-> NoValue]

\* CachedAction -> AIAction, as the cached decision is built
fromCachedAction(action) ==
    [type |-> action.actionType, description |-> action.description,
     locator |-> action.selector, value |-> action.value,
     verifications |-> NoValue]

\* AIAction -> CachedAction, as the plan is stored
toCachedAction(action) ==
    [selector |-> action.locator, actionType |-> action.type,
     description |-> action.description, value |-> action.value]

\* a plausible slip: only the first action of the plan is stored
toCachedActions_first(actions) ==
    IF Len(actions) = 0 THEN <<>> ELSE <<toCachedAction(actions[1])>>

\* decision.actions.map(...): all the actions of the plan
toCachedActions(actions) ==
    [i \in 1..Len(actions) |-> toCachedAction(actions[i])]

NoDecision ==
    [actions |-> <<>>, reasoning |-> <<>>, needsVerification |-> FALSE,
     fromCache |-> FALSE]

cachedDecision(cached) ==
    [actions |-> [i \in 1..Len(cached.actions) |-> fromCachedAction(cached.actions[i])],
     reasoning |-> <<"[DESDE CACHE]", cached.reasoning>>,
     needsVerification |-> FALSE,
     fromCache |-> TRUE]

plannedDecision(response) ==
    [actions |-> response.actions, reasoning |-> <<response.reasoning>>,
     needsVerification |-> FALSE, fromCache |-> FALSE]

InvalidJson == "La IA no devolvio un JSON valido"
ProviderFailed == "429 rate limit"
NoActionsList == "Cannot read properties of undefined (reading 'length')"

\* a plausible slip: a request the provider rejected is sent again
providerRequests_retried(response) == IF response.thrown THEN 2 ELSE 1

\* await this.llmProvider.analyzeImage(...): the requests sent for one plan
providerRequests(response) == 1
ActionFailed == "element not found"

\* a plausible slip: the retry looks the cache up again
looksUp_always(caching, skipCache) == caching

\* this.useSelectorCache && !skipCache
looksUp(caching, skipCache) == caching /\ ~skipCache

\* analyzePageAndDecide: the decision, the cache it leaves and the planner
\* calls it makes
analyzeOutcome(c, url, instruction, skipCache, response, t, cfg, caching) ==
    LET lookedUp == looksUp(caching, skipCache)
        found == findOutcome(c, url, instruction, t, cfg)
        afterFind == IF lookedUp THEN found.cache ELSE c
        hit == lookedUp /\ found.entry # NoEntry /\ Len(found.entry.actions) > 0
        stored == caching /\ Len(response.actions) > 0
    IN  IF hit
        THEN [kind |-> "hit", decision |-> cachedDecision(found.entry),
              cache |-> afterFind, llm |-> 0, source |-> found.entry.key,
              error |-> ""]
        ELSE IF response.thrown
        THEN [kind |-> "error", decision |-> NoDecision, cache |-> afterFind,
              llm |-> providerRequests(response), source |-> NoKey,
              error |-> ProviderFailed]
        ELSE IF ~response.valid \/ (~response.shaped /\ caching)
        THEN [kind |-> "invalid", decision |-> NoDecision, cache |-> afterFind,
              llm |-> providerRequests(response), source |-> NoKey,
              error |-> InvalidJson]
        ELSE IF ~response.shaped
        THEN [kind |-> "shapeless", decision |-> NoDecision, cache |-> afterFind,
              llm |-> providerRequests(response), source |-> NoKey,
              error |-> NoActionsList]
        ELSE [kind |-> "planned", decision |-> plannedDecision(response),
              cache |-> IF stored
                        THEN setResult(afterFind, url, instruction,
                                       toCachedActions(response.actions),
                                       response.reasoning, t, cfg)
                        ELSE afterFind,
              llm |-> providerRequests(response), source |-> NoKey,
              error |-> ""]

\* the page a click may navigate to
OtherPage(url) == IF url.path = PathP THEN UrlQ ELSE UrlP

\* executeAction: what the page may do with an action
ActionResults(action, url) ==
    CASE action.type \in {"fill", "click", "verify"} /\ action.locator = NoValue ->
            {[ok |-> FALSE, page |-> url]}
      [] action.type \in {"fill", "verify"} ->
            {[ok |-> TRUE, page |-> url], [ok |-> FALSE, page |-> url]}
      [] action.type = "click" ->
            {[ok |-> TRUE, page |-> url], [ok |-> TRUE, page |-> OtherPage(url)],
             [ok |-> FALSE, page |-> url]}
      [] OTHER -> {[ok |-> TRUE, page |-> url]}

FlowUrls == {UrlP}
FlowSteps == {<<InstrAbc>>, <<InstrAbc, InstrAbcDe>>}
NoFlow == [url |-> RawUrl("about:blank"), steps |-> <<>>, stopOnError |-> TRUE]
NoResult ==
    [success |-> FALSE, totalSteps |-> 0, completedSteps |-> 0, steps |-> <<>>,
     finalUrl |-> RawUrl("about:blank")]

\* the actions of plan n performed so far in this step
PerformedOf(n) == SelectSeq(executed, LAMBDA e : e.plan = n)

\* the first analysis of a step: the key it looked up and the key of the
\* entry that supplied the plan (NoKey when the planner did)
NoLookup == [key |-> NoKey, source |-> NoKey]

\* the per-step variables at the start of an iteration
StepReset ==
    /\ decision' = NoDecision
    /\ usedCache' = FALSE
    /\ error' = ""
    /\ executed' = <<>>
    /\ llmCalls' = 0
    /\ lookupKey' = NoKey
    /\ firstLookup' = NoLookup

\* the loop moves on to the next step, or ends
NextStep ==
    /\ IF step < Len(flow.steps)
       THEN step' = step + 1 /\ pc' = "analyze"
       ELSE step' = step /\ pc' = "finish"
    /\ StepReset

FlowIdle ==
    /\ useSelectorCache = TRUE
    /\ page = RawUrl("about:blank")
    /\ flows = 0
    /\ flow = NoFlow
    /\ pc = "idle"
    /\ step = 0
    /\ currentUrl = RawUrl("about:blank")
    /\ decision = NoDecision
    /\ usedCache = FALSE
    /\ error = ""
    /\ completedSteps = 0
    /\ stepResults = <<>>
    /\ flowResult = NoResult
    /\ executed = <<>>
    /\ llmCalls = 0
    /\ lookupKey = NoKey
    /\ firstLookup = NoLookup
    /\ waited = 0

FlowInit ==
    /\ useSelectorCache \in BOOLEAN
    /\ page = RawUrl("about:blank")
    /\ flows = 0
    /\ flow = NoFlow
    /\ pc = "idle"
    /\ step = 0
    /\ currentUrl = RawUrl("about:blank")
    /\ decision = NoDecision
    /\ usedCache = FALSE
    /\ error = ""
    /\ completedSteps = 0
    /\ stepResults = <<>>
    /\ flowResult = NoResult
    /\ executed = <<>>
    /\ llmCalls = 0
    /\ lookupKey = NoKey
    /\ firstLookup = NoLookup
    /\ waited = 0

\* executeFlow up to the loop: the page is opened at the url
executeFlow(url, steps, stopOnError) ==
    /\ pc = "idle"
    /\ flows < MaxFlows
    /\ flows' = flows + 1
    /\ flow' = [url |-> url, steps |-> steps, stopOnError |-> stopOnError]
    /\ stepResults' = <<>>
    /\ currentUrl' = url
    /\ completedSteps' = 0
    /\ page' = url
    /\ IF Len(steps) > 0
       THEN step' = 1 /\ pc' = "analyze"
       ELSE step' = 0 /\ pc' = "finish"
    /\ StepReset
    /\ flowResult' = NoResult
    /\ waited' = 0
    /\ UNCHANGED <<useSelectorCache, cacheVars>>

\* analyzePageAndDecide(instruction, undefined, skipCache), called at the
\* start of the step (skipCache false) or for the retry (skipCache true)
analyzePageAndDecide(skipCache) ==
    /\ pc = IF skipCache THEN "replan" ELSE "analyze"
    /\ \E response \in PlannerResponses :
       \E out \in {analyzeOutcome(cache, page, flow.steps[step], skipCache, response,
                                  now, config, useSelectorCache)} :
       \E key \in {generateCacheKey(page, flow.steps[step])} :
              /\ cache' = out.cache
              /\ disk' = savedIfChanged(disk, cache, out.cache, config)
              /\ llmCalls' = llmCalls + out.llm
              /\ lookupKey' = key
              /\ firstLookup' =
                    IF skipCache THEN firstLookup
                    ELSE [key |-> key,
                          source |-> IF out.kind = "hit" THEN out.source ELSE NoKey]
              /\ IF out.error # ""
                 THEN /\ error' = out.error
                      /\ pc' = "catch"
                      /\ UNCHANGED <<decision, usedCache>>
                 ELSE /\ decision' = out.decision
                      /\ usedCache' = IF skipCache THEN usedCache
                                      ELSE out.decision.fromCache
                      /\ pc' = IF Len(out.decision.actions) = 0 THEN "settle"
                               ELSE IF skipCache THEN "reexecute" ELSE "execute"
                      /\ UNCHANGED error
    /\ UNCHANGED <<config, now, lastOp, fails, trail, invalidated>>
    /\ UNCHANGED <<useSelectorCache, page, flows, flow, step, currentUrl,
                   completedSteps, stepResults, flowResult, executed, waited>>

\* a plausible slip: any failed plan is retried while caching is enabled
retriesWithPlanner_any(plan, fromCache, caching) == plan = 1 /\ caching

\* usedCache && this.useSelectorCache, in the catch of the first loop
retriesWithPlanner(plan, fromCache, caching) == plan = 1 /\ fromCache /\ caching

\* a plausible slip: the first action of the plan is taken to be done already
nextAction_skipFirst(actions, performed) ==
    actions[IF Len(performed) + 1 < Len(actions)
            THEN Len(performed) + 2 ELSE Len(actions)]

\* a plausible slip: the plan is walked from its end
nextAction_last(actions, performed) == actions[Len(actions) - Len(performed)]

\* for (const action of decision.actions)
nextAction(actions, performed) == actions[Len(performed) + 1]

\* executeAction on the next action of the plan, in either of the two loops
executeAction ==
    /\ pc \in {"execute", "reexecute"}
    /\ LET plan == IF pc = "execute" THEN 1 ELSE 2
           index == Len(PerformedOf(plan)) + 1
           action == nextAction(decision.actions, PerformedOf(plan))
       IN  \E result \in ActionResults(action, page) :
              IF result.ok
              THEN /\ executed' = Append(executed, [plan |-> plan, action |-> action])
                   /\ page' = result.page
                   /\ pc' = IF index = Len(decision.actions) THEN "settle" ELSE pc
                   /\ UNCHANGED error
              ELSE /\ error' = ActionFailed
                   /\ pc' = IF retriesWithPlanner(plan, usedCache, useSelectorCache)
                            THEN "invalidate" ELSE "catch"
                   /\ UNCHANGED <<executed, page>>
    /\ UNCHANGED <<useSelectorCache, flows, flow, step, currentUrl, decision,
                   usedCache, completedSteps, stepResults, flowResult, llmCalls,
                   lookupKey, firstLookup, waited, cacheVars>>

\* the plan from the cache has failed: its entry is invalidated
invalidateCached ==
    /\ pc = "invalidate"
    /\ cache' = invalidateResult(cache, currentUrl, flow.steps[step])
    /\ disk' = savedIfChanged(disk, cache, cache', config)
    /\ pc' = "replan"
    /\ UNCHANGED <<config, now, lastOp, fails, trail, invalidated>>
    /\ UNCHANGED <<useSelectorCache, page, flows, flow, step, currentUrl, decision,
                   usedCache, error, completedSteps, stepResults, flowResult,
                   executed, llmCalls, lookupKey, firstLookup, waited>>

\* a plausible slip: the loop goes on without the wait
waitForTimeout_none(elapsed) == elapsed

\* await this.page.waitForTimeout(delayBetweenSteps): one more wait has elapsed
waitForTimeout(elapsed) == elapsed + 1

\* the step has succeeded: the delay, markSuccess and the step's result
settleStep ==
    /\ pc = "settle"
    /\ waited' = waitForTimeout(waited)
    /\ currentUrl' = page
    /\ cache' = IF useSelectorCache
                THEN markSuccessResult(cache, page, flow.steps[step], now)
                ELSE cache
    /\ disk' = savedIfChanged(disk, cache, cache', config)
    /\ stepResults' = Append(stepResults,
           [step |-> step, instruction |-> flow.steps[step], success |-> TRUE,
            error |-> NoValue])
    /\ completedSteps' = completedSteps + 1
    /\ NextStep
    /\ UNCHANGED <<config, now, lastOp, fails, trail, invalidated>>
    /\ UNCHANGED <<useSelectorCache, page, flows, flow, flowResult>>

\* a plausible slip: the loop goes on whatever stopOnError says
afterFailure_continue == NextStep /\ waited' = waitForTimeout(waited)

\* if (stopOnError) break, at the end of the catch
afterFailure ==
    IF flow.stopOnError
    THEN step' = step /\ pc' = "finish" /\ StepReset /\ UNCHANGED waited
    ELSE NextStep /\ waited' = waitForTimeout(waited)

\* the step has failed: markFailure, the step's result, and the break
catchStep ==
    /\ pc = "catch"
    /\ cache' = IF useSelectorCache
                THEN markFailureResult(cache, currentUrl, flow.steps[step], config)
                ELSE cache
    /\ disk' = savedIfChanged(disk, cache, cache', config)
    /\ stepResults' = Append(stepResults,
           [step |-> step, instruction |-> flow.steps[step], success |-> FALSE,
            error |-> error])
    /\ afterFailure
    /\ UNCHANGED <<config, now, lastOp, fails, trail, invalidated>>
    /\ UNCHANGED <<useSelectorCache, page, flows, flow, currentUrl, completedSteps,
                   flowResult>>

\* executeFlow after the loop: the result it returns; its locals are gone
finishFlow ==
    /\ pc = "finish"
    /\ flowResult' =
           [success |-> completedSteps = Len(flow.steps),
            totalSteps |-> Len(flow.steps),
            completedSteps |-> completedSteps,
            steps |-> stepResults,
            finalUrl |-> currentUrl]
    /\ pc' = "idle"
    /\ flow' = NoFlow
    /\ step' = 0
    /\ currentUrl' = RawUrl("about:blank")
    /\ completedSteps' = 0
    /\ stepResults' = <<>>
    /\ waited' = 0
    /\ UNCHANGED <<useSelectorCache, page, flows, decision, usedCache, error,
                   executed, llmCalls, lookupKey, firstLookup, cacheVars>>

(***************************************************************************)
(* The test runner: runFlow wraps executeFlow with the definition's hooks  *)
(* and callbacks and converts its result.                                  *)
(***************************************************************************)
MaxRunSteps == 2

HookKinds == {"none", "ok", "throws"}
HookFailed == "hook failed"
NavigationFailed == "net::ERR_CONNECTION_REFUSED"
MissingVariables == "Variables faltantes"

\* the steps a definition declares
RunSteps == {SubSeq(<<InstrAbc, InstrAbcDe, InstrXyz>>, 1, n) : n \in 0..MaxRunSteps}

\* a flow definition, with what validateVariables finds (a variable can be
\* missing only from a step that names one) and the runner's stopOnError
RunDefs ==
    {d \in [steps : RunSteps, missing : BOOLEAN, stopOnError : BOOLEAN,
            beforeAll : HookKinds, afterAll : HookKinds,
            onStepSuccess : HookKinds, onStepError : HookKinds] :
        d.missing => Len(d.steps) > 0}

\* the number of successful outcomes in a list of step results
Successes(results) == Len(SelectSeq(results, LAMBDA r : r.success))

\* the outcomes of the steps executeFlow starts: all of them, or with
\* stopOnError those up to and including the first failure
StepOutcomes(n, stopOnError) ==
    IF stopOnError
    THEN {o \in UNION {[1..k -> BOOLEAN] : k \in 0..n} :
            /\ \A i \in 1..(Len(o) - 1) : o[i]
            /\ Len(o) < n => Len(o) > 0 /\ ~o[Len(o)]}
    ELSE [1..n -> BOOLEAN]

\* the FlowResult executeFlow builds for these steps and outcomes
AgentResult(steps, outcomes) ==
    LET results == [i \in 1..Len(outcomes) |->
                      [step |-> i, instruction |-> steps[i], success |-> outcomes[i],
                       error |-> IF outcomes[i] THEN NoValue ELSE ActionFailed]]
    IN  [thrown |-> FALSE,
         success |-> Successes(results) = Len(steps),
         totalSteps |-> Len(steps),
         completedSteps |-> Successes(results),
         steps |-> results,
         error |-> NoValue]

\* executeFlow has not returned
NoAgentResult ==
    [thrown |-> FALSE, success |-> FALSE, totalSteps |-> 0, completedSteps |-> 0,
     steps |-> <<>>, error |-> NoValue]

\* executeFlow throws before its loop (the agent has no page, or goto fails)
AgentThrows ==
    [thrown |-> TRUE, success |-> FALSE, totalSteps |-> 0, completedSteps |-> 0,
     steps |-> <<>>, error |-> NavigationFailed]

NoRunResult ==
    [returned |-> FALSE, success |-> FALSE, totalSteps |-> 0, completedSteps |-> 0,
     error |-> NoValue, steps |-> <<>>]

NoRunDef ==
    [steps |-> <<>>, missing |-> FALSE, stopOnError |-> TRUE, beforeAll |-> "none",
     afterAll |-> "none", onStepSuccess |-> "none", onStepError |-> "none"]

\* the StepExecutionResult runFlow makes of a StepResult
toStepExecutionResult(r) ==
    [step |-> r.step, instruction |-> r.instruction, success |-> r.success,
     duration |-> 0, error |-> r.error]

\* defineFlow: timeout is 60000 unless the definition gives one
DefaultTimeout == 2
Timeouts == {1, DefaultTimeout}
MaxElapsed == 3

RunIdle ==
    /\ runTimeout = DefaultTimeout
    /\ runElapsed = 0
    /\ runDef = NoRunDef
    /\ runPc = "idle"
    /\ agentResult = NoAgentResult
    /\ runStepResults = <<>>
    /\ runError = NoValue
    /\ runResult = NoRunResult

RunInit ==
    /\ runTimeout \in Timeouts
    /\ runElapsed = 0
    /\ runDef \in RunDefs
    /\ runPc = "validate"
    /\ agentResult = NoAgentResult
    /\ runStepResults = <<>>
    /\ runError = NoValue
    /\ runResult = NoRunResult

(***************************************************************************)
(* FileLock.withLock, as the callers of one event loop run it: a caller    *)
(* runs from one await to the next without interruption.                   *)
(***************************************************************************)
MaxCallers == 3

Callers == 1..MaxCallers
LockPaths == {"cache.json", "other.json"}

\* no promise: the map has no entry for the path, the caller awaits nothing
NoPromise == 0

\* the promises a caller has put in the map are named after the caller
LockInit ==
    /\ locks = [f \in LockPaths |-> NoPromise]
    /\ lockPc = [c \in Callers |-> "idle"]
    /\ lockPath = [c \in Callers |-> ""]
    /\ awaiting = [c \in Callers |-> NoPromise]
    /\ settled = {}

\* a plausible slip: if instead of while, a caller that has waited once goes on
mustWait_once(has, woken) == has /\ ~woken

\* while (this.locks.has(filePath))
mustWait(has, woken) == has

\* the loop and what follows it, run by caller c for path f without
\* interruption: either the caller awaits the promise in the map, or it puts
\* its own promise in the map and calls fn
enterOrWait(c, f, woken) ==
    IF mustWait(locks[f] # NoPromise, woken)
    THEN /\ awaiting' = [awaiting EXCEPT ![c] = locks[f]]
         /\ lockPc' = [lockPc EXCEPT ![c] = "await"]
         /\ UNCHANGED locks
    ELSE /\ locks' = [locks EXCEPT ![f] = c]
         /\ lockPc' = [lockPc EXCEPT ![c] = "fn"]
         /\ awaiting' = [awaiting EXCEPT ![c] = NoPromise]

\* withLock(filePath, fn) is called
withLock(c, f) ==
    /\ lockPc[c] = "idle"
    /\ lockPath' = [lockPath EXCEPT ![c] = f]
    /\ enterOrWait(c, f, FALSE)
    /\ UNCHANGED settled

\* a caller whose earlier call has ended calls withLock again; the promise
\* of the earlier call is forgotten once nobody awaits it any more
withLockAgain(c, f) ==
    /\ lockPc[c] = "done"
    /\ \A d \in Callers : awaiting[d] # c
    /\ lockPath' = [lockPath EXCEPT ![c] = f]
    /\ settled' = settled \ {c}
    /\ enterOrWait(c, f, FALSE)

\* the promise the caller awaited has been resolved: the loop goes round
wakeUp(c) ==
    /\ lockPc[c] = "await"
    /\ awaiting[c] \in settled
    /\ enterOrWait(c, lockPath[c], TRUE)
    /\ UNCHANGED <<lockPath, settled>>

\* fn has returned or thrown: the finally deletes the entry of the path and
\* resolves the caller's promise
releaseLock(c) ==
    /\ lockPc[c] = "fn"
    /\ locks' = [locks EXCEPT ![lockPath[c]] = NoPromise]
    /\ settled' = settled \cup {c}
    /\ lockPc' = [lockPc EXCEPT ![c] = "done"]
    /\ UNCHANGED <<lockPath, awaiting>>

(***************************************************************************)
(* runInPool: the workers are the runNext loops, each running from one     *)
(* await to the next without interruption.                                 *)
(***************************************************************************)
MaxTasks == 3
MaxWorkers == 2

\* the ids are the names of the flows; two flows may have the same name
TaskIds == {"login", "checkout"}
TaskFailed == "task failed"

\* a task: its id and whether its execute throws
PoolTasks == [id : TaskIds, throws : BOOLEAN]
TaskLists == UNION {[1..n -> PoolTasks] : n \in 0..MaxTasks}

\* executeTask: the result of the task at position index (from 1); `from` is
\* history, the position of the task that produced the result
executeTask(task, index) ==
    IF task.throws
    THEN [id |-> task.id, success |-> FALSE, error |-> TaskFailed, from |-> index]
    ELSE [id |-> task.id, success |-> TRUE, error |-> NoValue, from |-> index]

\* a plausible slip: one worker per task
workerCount_perTask(n, len) == len

\* Math.min(maxWorkers, tasks.length)
workerCount(n, len) == IF n < len THEN n ELSE len

\* tasks.findIndex(t => t.id === id), from 0, -1 when there is none
findIndex(ts, id) ==
    IF \E i \in 1..Len(ts) : ts[i].id = id
    THEN (CHOOSE i \in 1..Len(ts) :
             /\ ts[i].id = id
             /\ \A j \in 1..(i - 1) : ts[j].id # id) - 1
    ELSE -1

\* r put into a list sorted by findIndex, after the results that do not
\* compare greater (the sort is stable)
InsertSorted(sorted, r, ts) ==
    LET before == SelectSeq(sorted,
                     LAMBDA x : findIndex(ts, x.id) - findIndex(ts, r.id) <= 0)
        after  == SelectSeq(sorted,
                     LAMBDA x : findIndex(ts, x.id) - findIndex(ts, r.id) > 0)
    IN  before \o <<r>> \o after

RECURSIVE sortByIndex(_, _)
\* results.sort((a, b) => indexA - indexB)
sortByIndex(rs, ts) ==
    IF rs = <<>> THEN <<>>
    ELSE InsertSorted(sortByIndex(SubSeq(rs, 1, Len(rs) - 1), ts), rs[Len(rs)], ts)

PoolIdle ==
    /\ tasks = <<>>
    /\ maxWorkers = 1
    /\ currentIndex = 0
    /\ running = {}
    /\ exited = {}
    /\ poolResults = <<>>
    /\ completed = 0
    /\ poolPc = "idle"
    /\ poolReturn = <<>>
    /\ runCount = <<>>

\* runInPool(tasks, options) up to Promise.all: each worker created takes a
\* task and calls its execute
runInPool(ts, n) ==
    /\ poolPc = "idle"
    /\ LET count == workerCount(n, Len(ts))
       IN  /\ tasks' = ts
           /\ maxWorkers' = n
           /\ running' = {<<w, w>> : w \in 1..count}
           /\ currentIndex' = count
           /\ runCount' = [i \in 1..Len(ts) |-> IF i <= count THEN 1 ELSE 0]
    /\ exited' = {}
    /\ poolResults' = <<>>
    /\ completed' = 0
    /\ poolPc' = "running"
    /\ poolReturn' = <<>>

\* the task of worker w has ended: its result is pushed, and the loop of the
\* worker takes the next task or ends
runNext(w) ==
    /\ poolPc = "running"
    /\ \E p \in running :
          /\ p[1] = w
          /\ poolResults' = Append(poolResults, executeTask(tasks[p[2]], p[2]))
          /\ completed' = completed + 1
          /\ IF currentIndex < Len(tasks)
             THEN /\ running' = (running \ {p}) \cup {<<w, currentIndex + 1>>}
                  /\ currentIndex' = currentIndex + 1
                  /\ runCount' = [runCount EXCEPT ![currentIndex + 1] = @ + 1]
                  /\ UNCHANGED exited
             ELSE /\ running' = running \ {p}
                  /\ exited' = exited \cup {w}
                  /\ UNCHANGED <<currentIndex, runCount>>
    /\ UNCHANGED <<tasks, maxWorkers, poolPc, poolReturn>>

\* Promise.all(workers) has resolved: the results are sorted and returned
returnResults ==
    /\ poolPc = "running"
    /\ running = {}
    /\ poolReturn' = sortByIndex(poolResults, tasks)
    /\ poolResults' = sortByIndex(poolResults, tasks)
    /\ poolPc' = "returned"
    /\ UNCHANGED <<tasks, maxWorkers, currentIndex, running, exited, completed,
                   runCount>>

\* ---------------------------------------------------------------------------
\* findElementByDescription: the resolver of PlaywrightAIAgent.  core/agent.ts
\* and the older ai-agent.ts (re-exported by core/index.ts) each have one; the
\* older one has no label strategy and no test for dynamic ids.
\* ---------------------------------------------------------------------------

\* the i flag of the regular expressions, and toLowerCase
FoldChar(c) ==
    CASE c = "I" -> "i" [] c = "D" -> "d" [] c = "E" -> "e" [] c = "M" -> "m"
      [] c = "U" -> "u" [] c = "L" -> "l"
      [] OTHER -> LowerOf(c)
Fold(s) == [i \in 1..Len(s) |-> FoldChar(s[i])]

\* String.prototype.includes
Includes(s, sub) ==
    \E i \in 1..(Len(s) - Len(sub) + 1) : SubSeq(s, i, i + Len(sub) - 1) = sub

\* a match that found nothing (null)
NoMatch == <<>>

IsQuote(c) == c \in {"'", "\""}
IsDigit(c) == c \in {"0", "1", "2", "3", "4", "5", "6", "7", "8", "9"}
\* the class [^'">\s]
IsTokenChar(c) == ~IsQuote(c) /\ c # ">" /\ ~IsSpace(c)

\* the end of the longest run of [^'">\s] from i (i - 1 when there is none)
RECURSIVE TokenEnd(_, _)
TokenEnd(s, i) ==
    IF i <= Len(s) /\ IsTokenChar(s[i]) THEN TokenEnd(s, i + 1) ELSE i - 1

\* the end of the longest run of [^'"] from i
RECURSIVE TextEnd(_, _)
TextEnd(s, i) ==
    IF i <= Len(s) /\ ~IsQuote(s[i]) THEN TextEnd(s, i + 1) ELSE i - 1

\* the position after \s* from i
RECURSIVE SkipSpaces(_, _)
SkipSpaces(s, i) ==
    IF i <= Len(s) /\ IsSpace(s[i]) THEN SkipSpaces(s, i + 1) ELSE i

\* the key of an expression, matched at i without regard to case
KeyAt(s, key, i) ==
    /\ i + Len(key) - 1 <= Len(s)
    /\ Fold(SubSeq(s, i, i + Len(key) - 1)) = key

\* after the key: [=:]? (when the expression has it), \s* and ['"]?, each as
\* long as it can be
AfterPrefix(s, j, eq) ==
    LET j1 == IF eq /\ j <= Len(s) /\ s[j] \in {"=", ":"} THEN j + 1 ELSE j
        j2 == SkipSpaces(s, j1)
    IN  IF j2 <= Len(s) /\ IsQuote(s[j2]) THEN j2 + 1 ELSE j2

\* /key[=:]?\s*['"]?([^'">\s]+)/i tried at position i: the capture, or NoMatch.
\* When the capture is empty after the longest prefix, the expression gives
\* back the quote and the spaces (to no avail) and then the [=:], which the
\* capture then begins with.
tokenMatchAt(s, key, i) ==
    LET j == i + Len(key)
        k == AfterPrefix(s, j, TRUE)
    IN  IF ~KeyAt(s, key, i) THEN NoMatch
        ELSE IF TokenEnd(s, k) >= k THEN SubSeq(s, k, TokenEnd(s, k))
        ELSE IF j <= Len(s) /\ s[j] \in {"=", ":"} THEN SubSeq(s, j, TokenEnd(s, j))
        ELSE NoMatch

\* description.match(/key[=:]?\s*['"]?([^'">\s]+)/i): the leftmost match
tokenMatch(s, key) ==
    LET at == {i \in 1..Len(s) : tokenMatchAt(s, key, i) # NoMatch}
    IN  IF at = {} THEN NoMatch
        ELSE tokenMatchAt(s, key, CHOOSE i \in at : \A j \in at : i <= j)

\* /key[=:]?\s*['"]?([^'"]+)/i tried at position i (eq: with its [=:]?)
textMatchAfter(s, key, i, eq) ==
    LET j == i + Len(key)
        k == AfterPrefix(s, j, eq)
    IN  IF ~KeyAt(s, key, i) THEN NoMatch
        ELSE IF TextEnd(s, k) >= k THEN SubSeq(s, k, TextEnd(s, k))
        ELSE IF SkipSpaces(s, j) > j
                THEN SubSeq(s, SkipSpaces(s, j) - 1, TextEnd(s, SkipSpaces(s, j) - 1))
        ELSE IF eq /\ j <= Len(s) /\ s[j] \in {"=", ":"} THEN SubSeq(s, j, TextEnd(s, j))
        ELSE NoMatch

\* description.match(/key[=:]?\s*['"]?([^'"]+)/i)
keyTextMatch(s, key) ==
    LET at == {i \in 1..Len(s) : textMatchAfter(s, key, i, TRUE) # NoMatch}
    IN  IF at = {} THEN NoMatch
        ELSE textMatchAfter(s, key, CHOOSE i \in at : \A j \in at : i <= j, TRUE)

\* description.match(/['"]([^'"]+)['"]/)
quotedMatch(s) ==
    LET at == {i \in 1..Len(s) :
                  /\ IsQuote(s[i])
                  /\ TextEnd(s, i + 1) >= i + 1
                  /\ TextEnd(s, i + 1) < Len(s)}
        i0 == CHOOSE i \in at : \A j \in at : i <= j
    IN  IF at = {} THEN NoMatch ELSE SubSeq(s, i0 + 1, TextEnd(s, i0 + 1))

KeyName == <<"n", "a", "m", "e">>
KeyId == <<"i", "d">>
KeyPlaceholder == <<"p", "l", "a", "c", "e", "h", "o", "l", "d", "e", "r">>
KeyType == <<"t", "y", "p", "e">>
KeyLabel == <<"l", "a", "b", "e", "l">>
KeyText == <<"t", "e", "x", "t">>
KeyTexto == <<"t", "e", "x", "t", "o">>

\* /texto?\s*['"]?([^'"]+)/i tried at position i: with the o, then without
textoMatchAt(s, i) ==
    IF textMatchAfter(s, KeyTexto, i, FALSE) # NoMatch
    THEN textMatchAfter(s, KeyTexto, i, FALSE)
    ELSE textMatchAfter(s, KeyText, i, FALSE)

\* description.match(/texto?\s*['"]?([^'"]+)/i) || description.match(/['"]([^'"]+)['"]/)
textMatchOf(s) ==
    LET at == {i \in 1..Len(s) : textoMatchAt(s, i) # NoMatch}
    IN  IF at = {} THEN quotedMatch(s)
        ELSE textoMatchAt(s, CHOOSE i \in at : \A j \in at : i <= j)

\* /^:r\d+:$/i.test(id) || /^:.*:$/.test(id) || /^mui-\d+$/.test(id)
isDynamicReactId(id) ==
    \/ /\ Len(id) >= 4 /\ id[1] = ":" /\ FoldChar(id[2]) = "r" /\ id[Len(id)] = ":"
       /\ \A i \in 3..(Len(id) - 1) : IsDigit(id[i])
    \/ Len(id) >= 2 /\ id[1] = ":" /\ id[Len(id)] = ":"
    \/ /\ Len(id) >= 5 /\ SubSeq(id, 1, 4) = <<"m", "u", "i", "-">>
       /\ \A i \in 5..Len(id) : IsDigit(id[i])

\* the words of a string between runs of white space (split(/\s+/); the empty
\* pieces a leading or trailing space gives match nothing and are left out)
RECURSIVE Words(_)
Words(s) ==
    LET t == TrimStart(s)
        e == IF \E i \in 1..Len(t) : IsSpace(t[i])
             THEN (CHOOSE i \in 1..Len(t) : IsSpace(t[i]) /\ \A j \in 1..(i - 1) : ~IsSpace(t[j])) - 1
             ELSE Len(t)
    IN  IF t = <<>> THEN <<>>
        ELSE <<SubSeq(t, 1, e)>> \o Words(SubSeq(t, e + 1, Len(t)))

\* new RegExp(words.join('.*'), 'i').test(text): the words in this order,
\* without regard to case.  The hints of the model hold no character that is
\* special in a regular expression, so each word stands for itself.
RECURSIVE regExpTest(_, _)
regExpTest(words, text) ==
    IF words = <<>> THEN TRUE
    ELSE LET i == IndexFrom(Fold(text), Fold(Head(words)), 1)
         IN  /\ i > 0
             /\ regExpTest(Tail(words), SubSeq(text, i + Len(Head(words)), Len(text)))

\* s.replace(/a|b|.../gi, ''): every occurrence of one of the words removed
RECURSIVE removeAll(_, _)
removeAll(s, words) ==
    LET hit == {w \in words : KeyAt(s, w, 1)}
    IN  IF s = <<>> THEN <<>>
        ELSE IF hit # {} /\ <<>> \notin hit
             THEN removeAll(SubSeq(s, Len(CHOOSE w \in hit : TRUE) + 1, Len(s)), words)
        ELSE <<Head(s)>> \o removeAll(Tail(s), words)

\* where /id[=:]?\s*['"][^'"]+['"]?/i matched at 1 ends (0 when it does not)
idTokenEnd(s) ==
    LET j == Len(KeyId) + 1
        j1 == IF j <= Len(s) /\ s[j] \in {"=", ":"} THEN j + 1 ELSE j
        j2 == SkipSpaces(s, j1)
        e == TextEnd(s, j2 + 1)
    IN  IF KeyAt(s, KeyId, 1) /\ j2 <= Len(s) /\ IsQuote(s[j2]) /\ e >= j2 + 1
        THEN (IF e < Len(s) THEN e + 1 ELSE e)
        ELSE 0

\* description.replace(/id[=:]?\s*['"][^'"]+['"]?/gi, '')
RECURSIVE removeIdTokens(_)
removeIdTokens(s) ==
    IF s = <<>> THEN <<>>
    ELSE IF idTokenEnd(s) > 0 THEN removeIdTokens(SubSeq(s, idTokenEnd(s) + 1, Len(s)))
    ELSE <<Head(s)>> \o removeIdTokens(Tail(s))

\* description.replace(/['"]/g, "'")
singleQuotes(s) == [i \in 1..Len(s) |-> IF IsQuote(s[i]) THEN "'" ELSE s[i]]
\* description.replace(/['"]/g, '')
withoutQuotes(s) == SelectSeq(s, LAMBDA c : ~IsQuote(c))

(***************************************************************************)
(* The page: its elements in document order, with the attributes the       *)
(* strategies ask for.                                                      *)
(***************************************************************************)
Element(tag, id, name, type, placeholder, label, text, role, visible) ==
    [tag |-> tag, id |-> id, name |-> name, type |-> type, placeholder |-> placeholder,
     label |-> label, text |-> text, role |-> role, visible |-> visible]

\* what a strategy gives: it threw, or the index of the first element of its
\* locator (0: it returned null or a locator that matches nothing)
Thrown == [thrown |-> TRUE, found |-> 0]
Located(i) == [thrown |-> FALSE, found |-> i]
Null == Located(0)

\* locator.first(): the first element in document order that passes the test
first(dom, Test(_)) ==
    LET hits == {i \in 1..Len(dom) : Test(dom[i])}
    IN  IF hits = {} THEN Null ELSE Located(CHOOSE i \in hits : \A j \in hits : i <= j)

\* an identifier of CSS: what may follow # in a selector
IsNameChar(c) ==
    /\ ~IsQuote(c) /\ ~IsSpace(c)
    /\ c \notin {":", "=", "[", "]", "#", ".", ",", ">", "(", ")", "*", "+", "~"}
CssIdent(s) == s # <<>> /\ ~IsDigit(s[1]) /\ \A i \in 1..Len(s) : IsNameChar(s[i])

\* the attribute of an element a selector names
Attr(el, attr) ==
    CASE attr = KeyId -> el.id
      [] attr = KeyName -> el.name
      [] attr = KeyType -> el.type
      [] attr = KeyPlaceholder -> el.placeholder
      [] OTHER -> <<>>

\* page.locator(selector).first() and its count(), for the selectors #ident and
\* tag[attr='value']; the CSS parser of Playwright throws at anything else the
\* hints of the model can give (#:r12: is no selector)
cssLocate(dom, selector) ==
    LET open == IndexFrom(selector, <<"[">>, 1)
        eq == IndexFrom(selector, <<"=", "'">>, 1)
        n == Len(selector)
        tag == SubSeq(selector, 1, open - 1)
        attr == SubSeq(selector, open + 1, eq - 1)
        value == SubSeq(selector, eq + 2, n - 2)
    IN  IF selector # <<>> /\ selector[1] = "#"
        THEN IF CssIdent(Tail(selector))
             THEN first(dom, LAMBDA el : el.id = Tail(selector))
             ELSE Thrown
        ELSE IF /\ open > 0 /\ eq > open + 1 /\ n >= eq + 3
                /\ SubSeq(selector, n - 1, n) = <<"'", "]">>
                /\ (tag = <<>> \/ CssIdent(tag)) /\ CssIdent(attr)
                /\ \A i \in 1..Len(value) : ~IsQuote(value[i])
        THEN first(dom, LAMBDA el : (tag = <<>> \/ el.tag = tag) /\ Attr(el, attr) = value)
        ELSE Thrown

\* page.locator(`#${id}, [id="${id}"]`).first(): a list of selectors is one
\* selector, and is none when #id is none
idLocate(dom, id) ==
    IF CssIdent(id) THEN first(dom, LAMBDA el : el.id = id) ELSE Thrown

\* page.getByLabel(new RegExp(words.join('.*'), 'i')).first()
getByLabel(dom, words) ==
    first(dom, LAMBDA el : el.label # <<>> /\ regExpTest(words, el.label))
\* page.getByPlaceholder(new RegExp(words.join('.*'), 'i')).first()
getByPlaceholder(dom, words) ==
    first(dom, LAMBDA el : el.placeholder # <<>> /\ regExpTest(words, el.placeholder))

TagInput == <<"i", "n", "p", "u", "t">>
TagButton == <<"b", "u", "t", "t", "o", "n">>
TagA == <<"a">>

(***************************************************************************)
(* The strategies, in the order of the array.                              *)
(***************************************************************************)
\* 1. the description as a CSS selector
bySelector(d, m, dom) ==
    IF \/ Includes(d, <<"[">>) \/ StartsWith(d, TagButton) \/ StartsWith(d, TagInput)
       \/ StartsWith(d, TagA) \/ StartsWith(d, <<"#">>) \/ StartsWith(d, <<".">>)
    THEN cssLocate(dom, m.selector)
    ELSE Null

\* 2. the name taken from the description
byName(d, m, dom) ==
    IF m.nameMatch # NoMatch
    THEN first(dom, LAMBDA el : el.name = m.nameMatch)
    ELSE Null

\* 3. the label (core/agent.ts only)
byLabel(d, m, dom) ==
    LET explicit == IF m.labelMatch # NoMatch THEN getByLabel(dom, <<m.labelText>>) ELSE Null
    IN  IF explicit.found > 0 THEN explicit
        ELSE IF Len(m.fieldName) > 3 THEN getByLabel(dom, m.fieldWords)
        ELSE Null

\* 4. the id taken from the description, unless it is a dynamic one
byId(d, m, dom) ==
    IF m.idMatch = NoMatch THEN Null
    ELSE IF isDynamicReactId(m.idMatch) THEN Null
    ELSE idLocate(dom, m.idMatch)

\* the id strategy of ai-agent.ts: no test for dynamic ids
byId_legacy(d, m, dom) ==
    IF m.idMatch = NoMatch THEN Null ELSE idLocate(dom, m.idMatch)

\* the last two words of the description
lastTwo(words) == SubSeq(words, IF Len(words) > 2 THEN Len(words) - 1 ELSE 1, Len(words))

\* 5. the placeholder
byPlaceholder(d, m, dom) ==
    IF m.placeholderMatch # NoMatch
    THEN getByPlaceholder(dom, <<m.placeholderMatch>>)
    ELSE getByPlaceholder(dom, m.lastWords)

WordPassword == <<"p", "a", "s", "s", "w", "o", "r", "d">>
WordContrasena == <<"c", "o", "n", "t", "r", "a", "s", "e", "n_tilde", "a">>
WordEmail == <<"e", "m", "a", "i", "l">>
WordCorreo == <<"c", "o", "r", "r", "e", "o">>
WordUsuario == <<"u", "s", "u", "a", "r", "i", "o">>
WordUser == <<"u", "s", "e", "r">>

\* 6. the kind of field, by key words
byFieldKeyword(d, m, dom) ==
    LET password == first(dom, LAMBDA el : el.tag = TagInput /\ el.type = WordPassword)
        email == first(dom, LAMBDA el :
                     /\ el.tag = TagInput
                     /\ \/ el.name = WordEmail \/ el.type = WordEmail
                        \/ Includes(Fold(el.placeholder), WordCorreo)
                        \/ Includes(Fold(el.placeholder), WordEmail))
        user == first(dom, LAMBDA el :
                     /\ el.tag = TagInput
                     /\ \/ Includes(Fold(el.name), WordUser) \/ Includes(Fold(el.id), WordUser)
                        \/ Includes(Fold(el.placeholder), WordUsuario))
    IN  IF (Includes(m.descLower, WordPassword) \/ Includes(m.descLower, WordContrasena))
           /\ password.found > 0 THEN password
        ELSE IF (Includes(m.descLower, WordEmail) \/ Includes(m.descLower, WordCorreo))
           /\ email.found > 0 THEN email
        ELSE IF (Includes(m.descLower, WordUsuario) \/ Includes(m.descLower, WordUser))
           /\ user.found > 0 THEN user
        ELSE Null

ButtonWords == {<<"b", "o", "t", "o_acute", "n">>, <<"b", "u", "t", "t", "o", "n">>, <<"c", "l", "i", "c", "k">>, <<"s", "u", "b", "m", "i", "t">>, <<"i", "n", "g", "r", "e", "s", "a", "r">>, <<"l", "o", "g", "i", "n">>, <<"e", "n", "v", "i", "a", "r">>, <<"e", "n", "t", "r", "a", "r">>}
ButtonNoise == {<<"b", "o", "t", "o_acute", "n">>, <<"b", "u", "t", "t", "o", "n">>, <<"c", "l", "i", "c", "k">>, <<"s", "u", "b", "m", "i", "t">>, <<"c", "o", "n", " ", "t", "e", "x", "t", "o">>, <<"t", "i", "p", "o">>}
SubmitWords == {<<"i", "n", "g", "r", "e", "s", "a", "r">>, <<"l", "o", "g", "i", "n">>, <<"e", "n", "t", "r", "a", "r">>, <<"e", "n", "v", "i", "a", "r">>, <<"s", "u", "b", "m", "i", "t">>}
WordSubmit == <<"s", "u", "b", "m", "i", "t">>
RoleButton == "button"

IsButton(el) == el.tag = TagButton \/ el.role = RoleButton

\* 7. buttons
byButtonKeyword(d, m, dom) ==
    LET named == IF Len(m.textoBtn) > 2
                 THEN first(dom, LAMBDA el : IsButton(el) /\ regExpTest(<<m.textoBtn>>, el.text))
                 ELSE Null
        submitBtn == first(dom, LAMBDA el :
                        el.tag \in {TagButton, TagInput} /\ el.type = WordSubmit)
        anyBtn == first(dom, LAMBDA el :
                        el.tag = TagButton /\ \E w \in SubmitWords : regExpTest(<<w>>, el.text))
    IN  IF ~\E w \in ButtonWords : Includes(m.descLower, w) THEN Null
        ELSE IF named.found > 0 THEN named
        ELSE IF submitBtn.found > 0 THEN submitBtn
        ELSE anyBtn

\* 8. the type taken from the description
byType(d, m, dom) ==
    IF m.typeMatch # NoMatch
    THEN first(dom, LAMBDA el : el.tag = TagInput /\ el.type = m.typeMatch)
    ELSE Null

\* textMatch[1].trim(), or description.replace(/texto\s*[=:]?\s*['"']?/gi, '')
\* .replace(/['"']/g, '').trim(): a description in which textMatch found
\* nothing has no texto in it, so the first replace removes nothing
cleanTextOf(d, textMatch) ==
    IF textMatch # NoMatch THEN Trim(textMatch) ELSE Trim(withoutQuotes(d))

\* 9. visible text: the exact text (the texts of the model have no white space
\* to normalise), then the text in part (the searches after
\* these two look through the same texts, so find nothing new)
byText(d, m, dom) ==
    LET exact == first(dom, LAMBDA el : el.text # <<>> /\ el.text = m.cleanText)
    IN  IF Len(m.cleanText) <= 1 THEN Null
        ELSE IF exact.found > 0 THEN exact
        ELSE first(dom, LAMBDA el : el.text # <<>> /\ regExpTest(<<m.cleanText>>, el.text))

\* 10. the label that matches the whole description
byDescriptionLabel(d, m, dom) == getByLabel(dom, <<d>>)

WordCampo == <<"c", "a", "m", "p", "o">>
TextboxTypes == {<<>>, <<"t", "e", "x", "t">>, <<"e", "m", "a", "i", "l">>}

\* 11. any textbox
byTextbox(d, m, dom) ==
    IF \/ Includes(m.descLower, WordCampo) \/ Includes(m.descLower, TagInput)
       \/ Includes(m.descLower, KeyTexto)
    THEN first(dom, LAMBDA el : el.tag = TagInput /\ el.type \in TextboxTypes)
    ELSE Null

MenuRoles == {"menuitem", "navlink", "listitem"}

\* 12. menus and navigation
byMenu(d, m, dom) ==
    IF Len(m.menuText) > 1
    THEN first(dom, LAMBDA el : el.role \in MenuRoles /\ regExpTest(<<m.menuText>>, el.text))
    ELSE Null

\* what the strategies take from the description alone: the constants
\* findElementByDescription computes before its strategies array, and the
\* strings each strategy makes of the description when it runs
extractMatches(description) ==
    [descLower |-> Fold(description),
     nameMatch |-> tokenMatch(description, KeyName),
     idMatch |-> tokenMatch(description, KeyId),
     placeholderMatch |-> keyTextMatch(description, KeyPlaceholder),
     typeMatch |-> tokenMatch(description, KeyType),
     textMatch |-> textMatchOf(description),
     selector |-> singleQuotes(description),
     labelMatch |-> keyTextMatch(description, KeyLabel),
     labelText |-> Trim(keyTextMatch(description, KeyLabel)),
     fieldName |-> Trim(removeIdTokens(description)),
     fieldWords |-> Words(Trim(removeIdTokens(description))),
     lastWords |-> lastTwo(Words(description)),
     textoBtn |-> IF textMatchOf(description) # NoMatch THEN textMatchOf(description)
                  ELSE Trim(removeAll(description, ButtonNoise)),
     cleanText |-> cleanTextOf(description, textMatchOf(description)),
     menuText |-> cleanTextOf(description, textMatchOf(description))]

\* the order of the strategies array
StrategyNames_textFirst ==
    <<"text", "selector", "name", "label", "id", "placeholder", "field", "button", "type",
      "descriptionLabel", "textbox", "menu">>
StrategyNames ==
    <<"selector", "name", "label", "id", "placeholder", "field", "button", "type",
      "text", "descriptionLabel", "textbox", "menu">>

\* the strategies array of each agent
strategies(agent) ==
    IF agent = "core" THEN StrategyNames
    ELSE SelectSeq(StrategyNames, LAMBDA n : n # "label")

\* await strategy(), then element && await element.count() > 0
runStrategy(agent, name, d, m, dom) ==
    CASE name = "selector" -> bySelector(d, m, dom)
      [] name = "name" -> byName(d, m, dom)
      [] name = "label" -> byLabel(d, m, dom)
      [] name = "id" -> IF agent = "core" THEN byId(d, m, dom) ELSE byId_legacy(d, m, dom)
      [] name = "placeholder" -> byPlaceholder(d, m, dom)
      [] name = "field" -> byFieldKeyword(d, m, dom)
      [] name = "button" -> byButtonKeyword(d, m, dom)
      [] name = "type" -> byType(d, m, dom)
      [] name = "text" -> byText(d, m, dom)
      [] name = "descriptionLabel" -> byDescriptionLabel(d, m, dom)
      [] name = "textbox" -> byTextbox(d, m, dom)
      [] OTHER -> byMenu(d, m, dom)

(***************************************************************************)
(* The pages and the descriptions of the model.                            *)
(***************************************************************************)
EmailLink(v) == Element(TagA, <<>>, <<>>, <<>>, <<>>, <<>>, <<"e", "m", "a", "i", "l">>, "link", v)
EmailInput(v) ==
    Element(TagInput, <<":", "r", "1", "2", ":">>, <<"e", "m", "a", "i", "l">>, <<"e", "m", "a", "i", "l">>, <<>>, <<"E", "m", "a", "i", "l">>, <<>>, "", v)
UserInput(v) ==
    Element(TagInput, <<"m", "u", "i", "-", "1">>, <<"u", "s", "e", "r">>, <<"t", "e", "x", "t">>, <<>>, <<"U", "s", "e", "r">>, <<>>, "", v)
LoginButton == Element(TagButton, <<"l", "o", "g", "i", "n">>, <<>>, <<"s", "u", "b", "m", "i", "t">>, <<>>, <<>>, <<"L", "o", "g", "i", "n">>, "button", TRUE)
MenuItem == Element(TagA, <<>>, <<>>, <<>>, <<>>, <<>>, <<"M", "e", "n", "u">>, "menuitem", TRUE)

\* the link comes before the input in the document
Doms ==
    {<<EmailLink(a), EmailInput(b), UserInput(c), LoginButton, MenuItem>> :
        a \in BOOLEAN, b \in BOOLEAN, c \in BOOLEAN} \cup {<<>>}

HintName == <<"n", "a", "m", "e", "=", "'", "e", "m", "a", "i", "l", "'">>
HintDynamicId == <<"i", "d", "=", "'", ":", "r", "1", "2", ":", "'">>
HintMuiId == <<"i", "d", "=", "'", "m", "u", "i", "-", "1", "'">>
Hints ==
    {HintName, HintDynamicId, HintMuiId,
     <<"I", "D", "=", "m", "u", "i", "-", "1">>,
     <<"i", "d", "=", "'", "l", "o", "g", "i", "n", "'">>,
     <<"#", ":", "r", "1", "2", ":">>,
     <<"#", "l", "o", "g", "i", "n">>,
     <<"i", "d", ":", "r", "1", "2", ":">>,
     <<"t", "e", "x", "t", "o", " ", "'", "M", "e", "n", "u", "'">>,
     <<"l", "a", "b", "e", "l", "=", "'", "E", "m", "a", "i", "l", "'">>,
     <<"l", "o", "g", "i", "n", " ", "b", "u", "t", "t", "o", "n">>,
     <<"i", "n", "p", "u", "t", "[", "n", "a", "m", "e", "=", "'", "e", "m", "a", "i", "l", "'", "]">>,
     <<"c", "a", "m", "p", "o", " ", "z", "i", "p">>}

Agents == {"core", "legacy"}

\* const maxRetries = 2
maxRetries_three == 2 + 1
maxRetries == 2

ElementNotFound == "No se pudo encontrar elemento"
NoMatches == extractMatches(<<>>)

ResolveIdle ==
    /\ agentKind = "core"
    /\ hint = <<>>
    /\ document = <<>>
    /\ matches = NoMatches
    /\ attempt = 0
    /\ strategyIdx = 0
    /\ resolvePc = "idle"
    /\ resolved = 0
    /\ resolvedBy = ""
    /\ resolveError = ""
    /\ resolveWaits = 0
    /\ tried = <<>>

\* the call: the constants before the strategies array, then the first attempt
findElementByDescription(agent, description, d) ==
    /\ resolvePc = "idle"
    /\ agentKind' = agent
    /\ hint' = description
    /\ document' = d
    /\ matches' = extractMatches(description)
    /\ attempt' = 1
    /\ strategyIdx' = 1
    /\ resolvePc' = "strategies"
    /\ resolved' = 0
    /\ resolvedBy' = ""
    /\ resolveError' = ""
    /\ resolveWaits' = 0
    /\ tried' = <<>>

\* what the body of the inner loop makes of a strategy: the element is
\* returned when the strategy did not throw, found one, and waitFor sees it
\* visible; every exception is caught and the loop goes on
outcomeOf(out, d) ==
    IF out.thrown THEN "thrown"
    ELSE IF out.found = 0 THEN "null"
    ELSE IF d[out.found].visible THEN "visible"
    ELSE "hidden"

\* one turn of the inner loop, with the end of the attempt after the last one
tryStrategy ==
    /\ resolvePc = "strategies"
    /\ \E name \in {strategies(agentKind)[strategyIdx]} :
       \E out \in {runStrategy(agentKind, name, hint, matches, document)} :
          /\ tried' = Append(tried, [attempt |-> attempt, strategy |-> name,
                                     outcome |-> outcomeOf(out, document)])
          /\ IF outcomeOf(out, document) = "visible"
             THEN /\ resolved' = out.found
                  /\ resolvedBy' = name
                  /\ resolvePc' = "returned"
                  /\ UNCHANGED <<strategyIdx, resolveError>>
             ELSE IF strategyIdx < Len(strategies(agentKind))
             THEN /\ strategyIdx' = strategyIdx + 1
                  /\ UNCHANGED <<resolved, resolvedBy, resolvePc, resolveError>>
             ELSE IF attempt < maxRetries
             THEN /\ resolvePc' = "wait"
                  /\ UNCHANGED <<strategyIdx, resolved, resolvedBy, resolveError>>
             ELSE /\ resolvePc' = "failed"
                  /\ resolveError' = ElementNotFound
                  /\ UNCHANGED <<strategyIdx, resolved, resolvedBy>>
    /\ UNCHANGED <<agentKind, hint, document, matches, attempt, resolveWaits>>

\* page.waitForTimeout(retryDelay) and waitForLoadState in its try: the page
\* may have rendered more, or less, when the next attempt begins
waitAndRetry ==
    /\ resolvePc = "wait"
    /\ resolveWaits' = resolveWaits + 1
    /\ document' \in Doms
    /\ attempt' = attempt + 1
    /\ strategyIdx' = 1
    /\ resolvePc' = "strategies"
    /\ UNCHANGED <<agentKind, hint, matches, resolved, resolvedBy, resolveError, tried>>

\* the caller has the element or the error
resolveDone ==
    /\ resolvePc \in {"returned", "failed"}
    /\ agentKind' = "core"
    /\ hint' = <<>>
    /\ document' = <<>>
    /\ matches' = NoMatches
    /\ attempt' = 0
    /\ strategyIdx' = 0
    /\ resolvePc' = "idle"
    /\ resolved' = 0
    /\ resolvedBy' = ""
    /\ resolveError' = ""
    /\ resolveWaits' = 0
    /\ tried' = <<>>

(***************************************************************************)
(* The cache file across managers: every operation that changes the cache  *)
(* writes the file, and the constructor of the next manager reads it.      *)
(***************************************************************************)
NextVersion == "2.0.0"
MaxOps == 4
PersistConfigs ==
    [maxSize : {MaxConfigSize},
     defaultTTL : 1..MaxConfigTTL,
     maxFailures : 1..MaxConfigFailures,
     similarityThresholdPct : {SimilarityThresholdPct},
     appVersion : {AppVersion, NextVersion}]

\* a file that writeFileSync left half written
Truncated == [exists |-> TRUE, version |-> "", entries |-> <<>>, readable |-> FALSE]

\* the files saveToDisk can leave: when writeFileSync throws, the file is as
\* it was or is cut short
writeOutcomes(d, c, cfg, st) ==
    IF st = "ok" THEN {saveToDisk(c, cfg)} ELSE {d, Truncated}

\* what leaves saveToDisk when writeFileSync throws: the catch logs it
saveError_thrown(st) == IF st = "ok" THEN "" ELSE "EIO"
saveError(st) == ""

\* the entries in memory after an operation whose write failed: the catch
\* does not touch this.cache
afterWrite(before, after, st) == after

\* a plausible slip: the entries of a file of another version are kept
loadFromDisk_anyVersion(d, cfg, t, st) ==
    LET c == parseEntries(d.entries)
        gone == cleanupRemoves(c, t, cfg)
    IN  IF ~d.exists THEN [cache |-> <<>>, how |-> "nofile", saves |-> FALSE]
        ELSE IF st # "ok" \/ ~d.readable
        THEN [cache |-> <<>>, how |-> "error", saves |-> FALSE]
        ELSE [cache |-> SelectSeq(c, LAMBDA e : e.key \notin gone),
              how |-> IF d.version # cfg.appVersion THEN "version" ELSE "loaded",
              saves |-> gone # {}]
\* loadFromDisk: the cache it leaves, what it met, and whether its cleanup
\* removed entries (and so saves)
loadFromDisk(d, cfg, t, st) ==
    LET c == parseEntries(d.entries)
        gone == cleanupRemoves(c, t, cfg)
    IN  IF ~d.exists THEN [cache |-> <<>>, how |-> "nofile", saves |-> FALSE]
        ELSE IF st # "ok" \/ ~d.readable
        THEN [cache |-> <<>>, how |-> "error", saves |-> FALSE]
        ELSE IF d.version # cfg.appVersion
        THEN [cache |-> <<>>, how |-> "version", saves |-> FALSE]
        ELSE [cache |-> SelectSeq(c, LAMBDA e : e.key \notin gone), how |-> "loaded",
              saves |-> gone # {}]

PersistIdle ==
    /\ storage = "ok"
    /\ saved = <<>>
    /\ reloaded = <<>>
    /\ loadHow = "nofile"
    /\ setSince = {}
    /\ lastWrite = "none"
    /\ intended = <<>>
    /\ opError = ""
    /\ restarted = FALSE
    /\ ops = 0

\* one more operation of the harness
Counted ==
    /\ ops < MaxOps
    /\ ops' = ops + 1

PersistInit ==
    /\ config \in {c \in PersistConfigs : c.appVersion = AppVersion}
    /\ cache = <<>>
    /\ disk = NoFile
    /\ now = 0
    /\ lastOp = Op("new", NoKey, FALSE, NoEntry, "", 0)
    /\ fails = [k \in KeyUniverse |-> 0]
    /\ trail = [k \in KeyUniverse |-> ""]
    /\ invalidated = {}
    /\ PersistIdle

\* the end of an operation that leaves after in memory and, when writes is
\* true, calls saveToDisk
persisted(after, writes) ==
    /\ intended' = after
    /\ cache' = IF writes THEN afterWrite(cache, after, storage) ELSE after
    /\ disk' \in IF writes THEN writeOutcomes(disk, cache', config', storage) ELSE {disk}
    /\ lastWrite' = IF ~writes THEN "none" ELSE IF storage = "ok" THEN "written" ELSE "failed"
    /\ saved' = IF writes /\ storage = "ok" THEN cache' ELSE saved
    /\ opError' = IF writes THEN saveError(storage) ELSE ""

\* new SelectorCacheManager(cfg): the constructor calls loadFromDisk
construct(cfg) ==
    \E out \in {loadFromDisk(disk, cfg, now, storage)} :
       /\ ~restarted
       /\ restarted' = TRUE
       /\ config' = cfg
       /\ loadHow' = out.how
       /\ reloaded' = saved
       /\ setSince' = {}
       /\ lastOp' = Op("new", NoKey, FALSE, NoEntry, out.how, 0)
       /\ persisted(out.cache, out.saves)
       /\ UNCHANGED <<storage, now, fails, trail, invalidated, ops>>

persistSet(url, instruction, actions, reasoning) ==
    /\ Counted
    /\ setSince' = setSince \cup {generateCacheKey(url, instruction)}
    /\ lastOp' = Op("set", generateCacheKey(url, instruction), TRUE, NoEntry, "", 0)
    /\ UNCHANGED <<config, storage, now, reloaded, loadHow, fails, trail, invalidated, restarted>>
    /\ persisted(setResult(cache, url, instruction, actions, reasoning, now, config), TRUE)

persistFind(url, instruction) ==
    \E out \in {findOutcome(cache, url, instruction, now, config)} :
       /\ Counted
       /\ lastOp' = Op("find", generateCacheKey(url, instruction), out.entry # NoEntry,
                       out.entry, out.how, 0)
       /\ UNCHANGED <<config, storage, now, reloaded, loadHow, setSince, fails, trail, invalidated,
                   restarted>>
       /\ persisted(out.cache, out.how \in {"expired", "failures"})

persistMarkFailure(url, instruction) ==
    /\ Counted
    /\ lastOp' = Op("markFailure", generateCacheKey(url, instruction), FALSE, NoEntry, "", 0)
    /\ UNCHANGED <<config, storage, now, reloaded, loadHow, setSince, fails, trail, invalidated,
                   restarted>>
    /\ persisted(markFailureResult(cache, url, instruction, config),
                 Has(cache, generateCacheKey(url, instruction)))

\* the file system begins, or ceases, to fail
storageFault ==
    /\ Counted
    /\ storage' = IF storage = "ok" THEN "failing" ELSE "ok"
    /\ UNCHANGED <<cacheVars, saved, reloaded, loadHow, setSince, lastWrite, intended, opError,
                   restarted>>

persistTick ==
    /\ Counted
    /\ Tick
    /\ UNCHANGED <<storage, saved, reloaded, loadHow, setSince, lastWrite, intended, opError,
                   restarted>>

(***************************************************************************)
(* Semaphore.withPermit, as the callers of one event loop run it: a caller *)
(* runs from one await to the next without interruption.                   *)
(***************************************************************************)
MaxPermits == 2

\* aiCallSemaphore is new Semaphore(3); the model takes smaller ones too
SemSizes == 1..MaxPermits

SemIdle ==
    /\ semSize = 1
    /\ permits = 1
    /\ waiters = <<>>
    /\ semPc = [c \in Callers |-> "idle"]

\* new Semaphore(n)
SemInit ==
    /\ semSize \in SemSizes
    /\ permits = semSize
    /\ waiters = <<>>
    /\ semPc = [c \in Callers |-> "idle"]

\* a plausible slip: release gives the permit back and wakes a waiter as well
permitsAfterRelease_both(p, w) == p + 1

\* release: this.permits++ only when no waiter takes the permit over
permitsAfterRelease(p, w) == IF Len(w) > 0 THEN p ELSE p + 1

\* withPermit(fn) is called: acquire either takes a permit and returns, or
\* pushes the resolve of its promise
withPermit(c) ==
    /\ semPc[c] \in {"idle", "returned", "thrown"}
    /\ IF permits > 0
       THEN /\ permits' = permits - 1
            /\ semPc' = [semPc EXCEPT ![c] = "acquired"]
            /\ UNCHANGED waiters
       ELSE /\ waiters' = Append(waiters, c)
            /\ semPc' = [semPc EXCEPT ![c] = "waiting"]
            /\ UNCHANGED permits
    /\ UNCHANGED semSize

\* the await of acquire() goes on: fn is called
startFn(c) ==
    /\ semPc[c] = "acquired"
    /\ semPc' = [semPc EXCEPT ![c] = "fn"]
    /\ UNCHANGED <<semSize, permits, waiters>>

\* fn has returned or thrown: the finally calls release, which resolves the
\* promise of the first waiter or gives the permit back
endFn(c, throws) ==
    /\ semPc[c] = "fn"
    /\ permits' = permitsAfterRelease(permits, waiters)
    /\ waiters' = IF Len(waiters) > 0 THEN Tail(waiters) ELSE waiters
    /\ semPc' = [d \in Callers |->
                   IF d = c THEN (IF throws THEN "thrown" ELSE "returned")
                   ELSE IF Len(waiters) > 0 /\ d = Head(waiters) THEN "acquired"
                   ELSE semPc[d]]
    /\ UNCHANGED semSize

(***************************************************************************)
(* One manager per parallel worker: runParallel gives each task an agent   *)
(* of its own, every agent constructs a SelectorCacheManager with the same *)
(* cacheFilePath, and saveToDisk writes the manager's this.cache under the *)
(* lock of the file.                                                       *)
(***************************************************************************)
MaxManagers == 2
ManagerIds == 1..MaxManagers
NotBuilt == [built |-> FALSE, cache |-> <<>>]

ShareIdle ==
    /\ managers = [w \in ManagerIds |-> NotBuilt]
    /\ fileLock = {}
    /\ saveWaiters = {}
    /\ kept = {}

\* the end of an operation of manager w that leaves after in this.cache and,
\* when writes is true, calls saveToDisk: withLock runs the write at once
\* when the lock of the file is free, and waits when it is held
sharedSave(w, after, writes) ==
    /\ managers' = [managers EXCEPT ![w] = [built |-> TRUE, cache |-> after]]
    /\ IF writes /\ fileLock = {}
       THEN /\ disk' = saveToDisk(after, config)
            /\ fileLock' = {w}
            /\ UNCHANGED saveWaiters
       ELSE /\ saveWaiters' = IF writes THEN saveWaiters \cup {w} ELSE saveWaiters
            /\ UNCHANGED <<disk, fileLock>>
    /\ UNCHANGED <<config, cache, now, lastOp, fails, trail, invalidated>>

\* new PlaywrightAIAgent() in a task of runParallel: the manager loads the file
sharedConstruct(w) ==
    \E out \in {loadFromDisk(disk, config, now, "ok")} :
       /\ ~managers[w].built
       /\ sharedSave(w, out.cache, out.saves)
       /\ UNCHANGED kept

\* set on the manager of worker w
sharedSet(w, url, instruction, actions, reasoning) ==
    /\ managers[w].built
    /\ kept' = kept \cup {generateCacheKey(url, instruction)}
    /\ sharedSave(w, setResult(managers[w].cache, url, instruction, actions, reasoning,
                              now, config), TRUE)

\* invalidate on the manager of worker w
sharedInvalidate(w, url, instruction) ==
    /\ managers[w].built
    /\ kept' = kept \ {generateCacheKey(url, instruction)}
    /\ sharedSave(w, invalidateResult(managers[w].cache, url, instruction),
                  Has(managers[w].cache, generateCacheKey(url, instruction)))

\* the finally of withLock: the lock of the file is free again
sharedRelease(w) ==
    /\ fileLock = {w}
    /\ fileLock' = {}
    /\ UNCHANGED <<cacheVars, managers, saveWaiters, kept>>

\* a saveToDisk that waited finds the lock free and writes the entries its
\* manager holds by now
sharedResume(w) ==
    /\ w \in saveWaiters
    /\ fileLock = {}
    /\ disk' = saveToDisk(managers[w].cache, config)
    /\ fileLock' = {w}
    /\ saveWaiters' = saveWaiters \ {w}
    /\ UNCHANGED <<config, cache, now, lastOp, fails, trail, invalidated, managers, kept>>

ExtraIdle == SemIdle /\ ShareIdle

MoreIdle == ResolveIdle /\ PersistIdle /\ ExtraIdle

HarnessIdle == RunIdle /\ LockInit /\ PoolIdle /\ MoreIdle

\* runFlow: the variables are resolved and validated
runFlow ==
    /\ runPc = "validate"
    /\ IF runDef.missing
       THEN /\ runResult' =
                  [returned |-> TRUE, success |-> FALSE,
                   totalSteps |-> Len(runDef.steps), completedSteps |-> 0,
                   error |-> MissingVariables, steps |-> <<>>]
            /\ runPc' = "done"
       ELSE /\ runPc' = "beforeAll"
            /\ UNCHANGED runResult
    /\ UNCHANGED <<runDef, agentResult, runStepResults, runError, runTimeout, runElapsed>>

\* await definition.beforeAll()
beforeAll ==
    /\ runPc = "beforeAll"
    /\ IF runDef.beforeAll = "throws"
       THEN runError' = HookFailed /\ runPc' = "catch"
       ELSE runPc' = "executeFlow" /\ UNCHANGED runError
    /\ UNCHANGED <<runDef, agentResult, runStepResults, runResult, runTimeout, runElapsed>>

\* await this.agent.executeFlow(...): it returns when the agent is done,
\* however long that takes
callExecuteFlow ==
    /\ runPc = "executeFlow"
    /\ \E out \in {AgentThrows} \cup
                  {AgentResult(runDef.steps, o) :
                     o \in StepOutcomes(Len(runDef.steps), runDef.stopOnError)} :
          /\ agentResult' = out
          /\ runElapsed' \in IF Len(out.steps) = 0 THEN {0} ELSE 0..MaxElapsed
          /\ IF out.thrown
             THEN runError' = out.error /\ runPc' = "catch"
             ELSE /\ runPc' = IF Len(out.steps) = 0 THEN "afterAll" ELSE "convert"
                  /\ UNCHANGED runError
    /\ UNCHANGED <<runDef, runStepResults, runResult, runTimeout>>

\* one turn of the loop over result.steps: the converted result is pushed,
\* then the definition's callback for the step is called
convertStep ==
    /\ runPc = "convert"
    /\ LET r == agentResult.steps[Len(runStepResults) + 1]
           callback == IF r.success THEN runDef.onStepSuccess ELSE runDef.onStepError
       IN  /\ runStepResults' = Append(runStepResults, toStepExecutionResult(r))
           /\ IF callback = "throws"
              THEN runError' = HookFailed /\ runPc' = "catch"
              ELSE /\ runPc' = IF Len(runStepResults) + 1 = Len(agentResult.steps)
                               THEN "afterAll" ELSE "convert"
                   /\ UNCHANGED runError
    /\ UNCHANGED <<runDef, agentResult, runResult, runTimeout, runElapsed>>

\* await definition.afterAll(), and the result runFlow returns
afterAll ==
    /\ runPc = "afterAll"
    /\ IF runDef.afterAll = "throws"
       THEN runError' = HookFailed /\ runPc' = "catch" /\ UNCHANGED runResult
       ELSE /\ runResult' =
                  [returned |-> TRUE, success |-> agentResult.success,
                   totalSteps |-> agentResult.totalSteps,
                   completedSteps |-> agentResult.completedSteps,
                   error |-> agentResult.error, steps |-> runStepResults]
            /\ runPc' = "done"
            /\ UNCHANGED runError
    /\ UNCHANGED <<runDef, agentResult, runStepResults, runTimeout, runElapsed>>

\* the catch of runFlow
catchRunFlow ==
    /\ runPc = "catch"
    /\ runResult' =
          [returned |-> TRUE, success |-> FALSE, totalSteps |-> Len(runDef.steps),
           completedSteps |-> Successes(runStepResults),
           error |-> runError, steps |-> runStepResults]
    /\ runPc' = "done"
    /\ UNCHANGED <<runDef, agentResult, runStepResults, runError, runTimeout, runElapsed>>

(***************************************************************************)
(* Specifications.                                                         *)
(***************************************************************************)
CacheNext ==
    \/ \E c \in CacheCalls : find(c[1], c[2]) /\ UNCHANGED <<normVars, flowVars, harnessVars>>
    \/ \E c \in CacheCalls, a \in CachedPlans :
          set(c[1], c[2], a, "r") /\ UNCHANGED <<normVars, flowVars, harnessVars>>
    \/ \E c \in CacheCalls :
          /\ Get(cache, generateCacheKey(c[1], c[2])).successCount < MaxSuccessCount
          /\ markSuccess(c[1], c[2])
          /\ UNCHANGED <<normVars, flowVars, harnessVars>>
    \/ \E c \in CacheCalls : markFailure(c[1], c[2]) /\ UNCHANGED <<normVars, flowVars, harnessVars>>
    \/ \E c \in CacheCalls : invalidate(c[1], c[2]) /\ UNCHANGED <<normVars, flowVars, harnessVars>>
    \/ cleanup /\ UNCHANGED <<normVars, flowVars, harnessVars>>
    \/ clear /\ UNCHANGED <<normVars, flowVars, harnessVars>>
    \/ Tick /\ UNCHANGED <<normVars, flowVars, harnessVars>>

InitCache == CacheInit /\ NormIdle /\ FlowIdle /\ HarnessIdle

SpecCache == InitCache /\ [][CacheNext]_vars

NormNext ==
    \/ NormalizeOnce /\ UNCHANGED <<cacheVars, flowVars, harnessVars>>
    \/ NormalizeTwice /\ UNCHANGED <<cacheVars, flowVars, harnessVars>>

CacheIdle ==
    /\ config \in {c \in Configs : c.maxSize = 1 /\ c.defaultTTL = 1 /\ c.maxFailures = 1}
    /\ cache = <<>>
    /\ disk = NoFile
    /\ now = 0
    /\ lastOp = Op("new", NoKey, FALSE, NoEntry, "", 0)
    /\ fails = [k \in KeyUniverse |-> 0]
    /\ trail = [k \in KeyUniverse |-> ""]
    /\ invalidated = {}

InitNorm == NormInit /\ CacheIdle /\ FlowIdle /\ HarnessIdle

SpecNorm == InitNorm /\ [][NormNext]_vars

EvictNext ==
    \/ EvictFill /\ UNCHANGED <<normVars, flowVars, harnessVars>>
    \/ EvictConfirm /\ UNCHANGED <<normVars, flowVars, harnessVars>>
    \/ EvictTick /\ UNCHANGED <<normVars, flowVars, harnessVars>>
    \/ EvictSet /\ UNCHANGED <<normVars, flowVars, harnessVars>>

InitEvict == EvictInit /\ NormIdle /\ FlowIdle /\ HarnessIdle

SpecEvict == InitEvict /\ [][EvictNext]_vars

\* time passes between runs (the waits inside a run are seconds, the
\* time-to-live is days)
FlowTick ==
    /\ pc = "idle"
    /\ Tick

FlowNext ==
    \/ \E url \in FlowUrls, steps \in FlowSteps, stopOnError \in BOOLEAN :
          executeFlow(url, steps, stopOnError) /\ UNCHANGED <<normVars, harnessVars>>
    \/ analyzePageAndDecide(FALSE) /\ UNCHANGED <<normVars, harnessVars>>
    \/ executeAction /\ UNCHANGED <<normVars, harnessVars>>
    \/ invalidateCached /\ UNCHANGED <<normVars, harnessVars>>
    \/ analyzePageAndDecide(TRUE) /\ UNCHANGED <<normVars, harnessVars>>
    \/ settleStep /\ UNCHANGED <<normVars, harnessVars>>
    \/ catchStep /\ UNCHANGED <<normVars, harnessVars>>
    \/ finishFlow /\ UNCHANGED <<normVars, harnessVars>>
    \/ FlowTick /\ UNCHANGED <<normVars, flowVars, harnessVars>>

FlowCacheInit ==
    /\ config \in {c \in Configs : c.maxSize = MaxConfigSize}
    /\ cache = <<>>
    /\ disk = NoFile
    /\ now = 0
    /\ lastOp = Op("new", NoKey, FALSE, NoEntry, "", 0)
    /\ fails = [k \in KeyUniverse |-> 0]
    /\ trail = [k \in KeyUniverse |-> ""]
    /\ invalidated = {}

InitFlow == FlowCacheInit /\ NormIdle /\ FlowInit /\ HarnessIdle

SpecFlow == InitFlow /\ [][FlowNext]_vars

RunNext ==
    \/ runFlow /\ UNCHANGED <<cacheVars, normVars, flowVars, lockVars, poolVars, moreVars>>
    \/ beforeAll /\ UNCHANGED <<cacheVars, normVars, flowVars, lockVars, poolVars, moreVars>>
    \/ callExecuteFlow /\ UNCHANGED <<cacheVars, normVars, flowVars, lockVars, poolVars, moreVars>>
    \/ convertStep /\ UNCHANGED <<cacheVars, normVars, flowVars, lockVars, poolVars, moreVars>>
    \/ afterAll /\ UNCHANGED <<cacheVars, normVars, flowVars, lockVars, poolVars, moreVars>>
    \/ catchRunFlow /\ UNCHANGED <<cacheVars, normVars, flowVars, lockVars, poolVars, moreVars>>

InitRun == RunInit /\ CacheIdle /\ NormIdle /\ FlowIdle /\ LockInit /\ PoolIdle /\ MoreIdle

SpecRun == InitRun /\ [][RunNext]_vars

LockNext ==
    \/ \E c \in Callers, f \in LockPaths :
          withLock(c, f) /\ UNCHANGED <<cacheVars, normVars, flowVars, runVars, poolVars, moreVars>>
    \/ \E c \in Callers : wakeUp(c) /\ UNCHANGED <<cacheVars, normVars, flowVars, runVars, poolVars, moreVars>>
    \/ \E c \in Callers :
          releaseLock(c) /\ UNCHANGED <<cacheVars, normVars, flowVars, runVars, poolVars, moreVars>>

InitLock == LockInit /\ CacheIdle /\ NormIdle /\ FlowIdle /\ RunIdle /\ PoolIdle /\ MoreIdle

SpecLock == InitLock /\ [][LockNext]_vars

\* the steps of caller c that no other caller can do for it
wakeStep(c) ==
    wakeUp(c) /\ UNCHANGED <<cacheVars, normVars, flowVars, runVars, poolVars, moreVars>>
releaseStep(c) ==
    releaseLock(c) /\ UNCHANGED <<cacheVars, normVars, flowVars, runVars, poolVars, moreVars>>

\* the callers come back: after a call has ended its caller may call again
LockAgainNext ==
    \/ \E c \in Callers, f \in LockPaths :
          withLock(c, f) /\ UNCHANGED <<cacheVars, normVars, flowVars, runVars, poolVars, moreVars>>
    \/ \E c \in Callers, f \in LockPaths :
          withLockAgain(c, f) /\ UNCHANGED <<cacheVars, normVars, flowVars, runVars, poolVars, moreVars>>
    \/ \E c \in Callers : wakeStep(c)
    \/ \E c \in Callers : releaseStep(c)

\* every fn that holds a lock ends, and the reaction of a caller whose
\* awaited promise is resolved runs
LockFairness ==
    \A c \in Callers : WF_vars(releaseStep(c)) /\ WF_vars(wakeStep(c))

SpecLockLive == InitLock /\ [][LockAgainNext]_vars /\ LockFairness

PoolNext ==
    \/ \E ts \in TaskLists, n \in 1..MaxWorkers :
          runInPool(ts, n) /\ UNCHANGED <<cacheVars, normVars, flowVars, runVars, lockVars, moreVars>>
    \/ \E w \in {p[1] : p \in running} :
          runNext(w) /\ UNCHANGED <<cacheVars, normVars, flowVars, runVars, lockVars, moreVars>>
    \/ returnResults /\ UNCHANGED <<cacheVars, normVars, flowVars, runVars, lockVars, moreVars>>

InitPool == PoolIdle /\ CacheIdle /\ NormIdle /\ FlowIdle /\ RunIdle /\ LockInit /\ MoreIdle

SpecPool == InitPool /\ [][PoolNext]_vars

ResolveStep ==
    \/ tryStrategy /\ UNCHANGED <<cacheVars, normVars, flowVars, runVars, lockVars, poolVars, persistVars, extraVars>>
    \/ waitAndRetry /\ UNCHANGED <<cacheVars, normVars, flowVars, runVars, lockVars, poolVars, persistVars, extraVars>>
ResolveNext ==
    \/ \E agent \in Agents : \E description \in Hints : \E d \in Doms :
          findElementByDescription(agent, description, d)
             /\ UNCHANGED <<cacheVars, normVars, flowVars, runVars, lockVars, poolVars, persistVars, extraVars>>
    \/ ResolveStep
    \/ resolveDone /\ UNCHANGED <<cacheVars, normVars, flowVars, runVars, lockVars, poolVars, persistVars, extraVars>>

InitResolve == ResolveIdle /\ PersistIdle /\ ExtraIdle /\ CacheIdle /\ NormIdle /\ FlowIdle /\ RunIdle /\ LockInit /\ PoolIdle

PersistCalls == {<<UrlP, InstrAbcDe>>, <<UrlP, InstrAbc>>}
PersistNext ==
    \/ \E cfg \in PersistConfigs :
          construct(cfg) /\ UNCHANGED <<normVars, flowVars, runVars, lockVars, poolVars, resolveVars, extraVars>>
    \/ \E c \in PersistCalls, a \in CachedPlans :
          persistSet(c[1], c[2], a, "r")
             /\ UNCHANGED <<normVars, flowVars, runVars, lockVars, poolVars, resolveVars, extraVars>>
    \/ \E c \in PersistCalls :
          persistFind(c[1], c[2])
             /\ UNCHANGED <<normVars, flowVars, runVars, lockVars, poolVars, resolveVars, extraVars>>
    \/ \E c \in PersistCalls :
          persistMarkFailure(c[1], c[2])
             /\ UNCHANGED <<normVars, flowVars, runVars, lockVars, poolVars, resolveVars, extraVars>>
    \/ storageFault /\ UNCHANGED <<normVars, flowVars, runVars, lockVars, poolVars, resolveVars, extraVars>>
    \/ persistTick /\ UNCHANGED <<normVars, flowVars, runVars, lockVars, poolVars, resolveVars, extraVars>>

InitPersist ==
    PersistInit /\ NormIdle /\ FlowIdle /\ RunIdle /\ LockInit /\ PoolIdle /\ ResolveIdle /\ ExtraIdle

SpecPersist == InitPersist /\ [][PersistNext]_vars

FuzzyNext ==
    \/ \E c \in FuzzyCalls : find(c[1], c[2]) /\ UNCHANGED <<normVars, flowVars, harnessVars>>
    \/ \E c \in FuzzyStored, a \in CachedPlans :
          /\ Len(cache) < MaxFuzzyEntries \/ Has(cache, generateCacheKey(c[1], c[2]))
          /\ set(c[1], c[2], a, "r")
          /\ UNCHANGED <<normVars, flowVars, harnessVars>>
    \/ \E c \in FuzzyStored :
          markFailure(c[1], c[2]) /\ UNCHANGED <<normVars, flowVars, harnessVars>>
    \/ Tick /\ UNCHANGED <<normVars, flowVars, harnessVars>>

FuzzyInit ==
    /\ config \in {c \in Configs : /\ c.maxSize = MaxConfigSize /\ c.defaultTTL = 1
                                  /\ c.maxFailures = MaxConfigFailures}
    /\ cache = <<>>
    /\ disk = NoFile
    /\ now = 0
    /\ lastOp = Op("new", NoKey, FALSE, NoEntry, "", 0)
    /\ fails = [k \in KeyUniverse |-> 0]
    /\ trail = [k \in KeyUniverse |-> ""]
    /\ invalidated = {}

InitFuzzy == FuzzyInit /\ NormIdle /\ FlowIdle /\ HarnessIdle

SpecFuzzy == InitFuzzy /\ [][FuzzyNext]_vars

SemNext ==
    \/ \E c \in Callers :
          withPermit(c)
             /\ UNCHANGED <<cacheVars, normVars, flowVars, runVars, lockVars, poolVars,
                            resolveVars, persistVars, shareVars>>
    \/ \E c \in Callers :
          startFn(c)
             /\ UNCHANGED <<cacheVars, normVars, flowVars, runVars, lockVars, poolVars,
                            resolveVars, persistVars, shareVars>>
    \/ \E c \in Callers, throws \in BOOLEAN :
          endFn(c, throws)
             /\ UNCHANGED <<cacheVars, normVars, flowVars, runVars, lockVars, poolVars,
                            resolveVars, persistVars, shareVars>>

InitSem ==
    /\ SemInit /\ CacheIdle /\ NormIdle /\ FlowIdle /\ RunIdle /\ LockInit /\ PoolIdle
    /\ ResolveIdle /\ PersistIdle /\ ShareIdle

SharedCalls == {<<UrlP, InstrAbcDe>>, <<UrlP, InstrAbc>>}
SharedNext ==
    \/ \E w \in ManagerIds :
          sharedConstruct(w)
             /\ UNCHANGED <<normVars, flowVars, runVars, lockVars, poolVars, resolveVars,
                            persistVars, semVars>>
    \/ \E w \in ManagerIds, c \in SharedCalls, a \in CachedPlans :
          sharedSet(w, c[1], c[2], a, "r")
             /\ UNCHANGED <<normVars, flowVars, runVars, lockVars, poolVars, resolveVars,
                            persistVars, semVars>>
    \/ \E w \in ManagerIds, c \in SharedCalls :
          sharedInvalidate(w, c[1], c[2])
             /\ UNCHANGED <<normVars, flowVars, runVars, lockVars, poolVars, resolveVars,
                            persistVars, semVars>>
    \/ \E w \in ManagerIds :
          sharedRelease(w)
             /\ UNCHANGED <<normVars, flowVars, runVars, lockVars, poolVars, resolveVars,
                            persistVars, semVars>>
    \/ \E w \in ManagerIds :
          sharedResume(w)
             /\ UNCHANGED <<normVars, flowVars, runVars, lockVars, poolVars, resolveVars,
                            persistVars, semVars>>

SharedInit ==
    /\ config \in {c \in Configs : c.maxSize = MaxConfigSize
                                     /\ c.maxFailures = MaxConfigFailures}
    /\ cache = <<>>
    /\ disk = NoFile
    /\ now = 0
    /\ lastOp = Op("new", NoKey, FALSE, NoEntry, "", 0)
    /\ fails = [k \in KeyUniverse |-> 0]
    /\ trail = [k \in KeyUniverse |-> ""]
    /\ invalidated = {}
    /\ ShareIdle

InitShared ==
    /\ SharedInit /\ NormIdle /\ FlowIdle /\ RunIdle /\ LockInit /\ PoolIdle
    /\ ResolveIdle /\ PersistIdle /\ SemIdle

SpecShared == InitShared /\ [][SharedNext]_vars

SpecSem == InitSem /\ [][SemNext]_vars

\* every call the resolver awaits ends: the waits have timeouts
SpecResolve == InitResolve /\ [][ResolveNext]_vars /\ WF_vars(ResolveStep)

(***************************************************************************)
(* The properties.                                                         *)
(***************************************************************************)
\* an entry the lookup must not return: older than the time-to-live, or at
\* or over the failure threshold
Stale(entry, t) ==
    \/ t - entry.timestamp > config.defaultTTL
    \/ entry.failureCount >= config.maxFailures

\* the entries other than the exact-key one that the fuzzy scan would accept
FuzzyOthers(url, instruction) ==
    {i \in FuzzyMatches(cache, url, instruction, now, config) :
        cache[i].key # generateCacheKey(url, instruction)}

\* the entries a lookup examines: the exact-key entry if there is one, else
\* the candidates on the same page up to the first one that matches
Examined(url, instruction) ==
    LET fuzzy == FuzzyMatches(cache, url, instruction, now, config)
    IN  IF Has(cache, generateCacheKey(url, instruction))
        THEN {IndexOf(cache, generateCacheKey(url, instruction))}
        ELSE {i \in 1..Len(cache) :
                 /\ StartsWith(cache[i].key, extractUrlPattern(url) \o KeySeparator)
                 /\ (fuzzy = {} \/ i <= SetMin(fuzzy))}

\* C1: after any set call the cache holds at most maxSize entries.
C1_SizeBound ==
    lastOp.op = "set" => Len(cache) <= config.maxSize

\* C2: the markFailure call that is the maxFailures-th consecutive one on an
\* entry returns true and deletes the entry, every earlier one returns false,
\* and no later find returns the entry.
C2_FailureThreshold ==
    /\ (lastOp.op = "markFailure" /\ lastOp.how # "absent") =>
           /\ lastOp.nth <= config.maxFailures
           /\ lastOp.ret <=> (lastOp.nth = config.maxFailures)
           /\ lastOp.ret => ~Has(cache, lastOp.key)
    /\ \A k \in invalidated : ~Has(cache, k)
    /\ (lastOp.op = "find" /\ lastOp.ret) => lastOp.entry.key \notin invalidated

\* a find on a key that two consecutive failures had invalidated
C2_Witness ==
    /\ lastOp.op = "find"
    /\ lastOp.key \in invalidated
    /\ config.maxFailures = 2

\* C3: a markSuccess between two markFailure calls resets the counter to 0, so
\* the counter is 1 after the second markFailure and the entry is invalidated
\* only by the maxFailures-th failure counted from that success.
C3_SuccessResets ==
    /\ \A k \in KeyUniverse :
          /\ trail[k] = "FS" => Has(cache, k) /\ Get(cache, k).failureCount = 0
          /\ trail[k] = "FSF" =>
                /\ Has(cache, k)
                /\ Get(cache, k).failureCount = fails[k]
                /\ fails[k] >= 1
    /\ (lastOp.op = "markFailure" /\ lastOp.how = "FSF" /\ lastOp.nth = 1) =>
           (Has(cache, lastOp.key) => Get(cache, lastOp.key).failureCount = 1)
    /\ (lastOp.op = "markFailure" /\ lastOp.how = "FSF") =>
           (lastOp.ret <=> (lastOp.nth = config.maxFailures))

\* failure, success, failure, and then the failure that invalidates
C3_Witness ==
    /\ lastOp.op = "markFailure"
    /\ lastOp.how = "FSF"
    /\ lastOp.ret
    /\ lastOp.nth = 2

\* C4: a find on the key of a present entry under the failure threshold
\* returns the entry up to time timestamp + ttl - 1 and returns nothing from
\* time timestamp + ttl + 1 on; set stamps the entry with the current time.
C4_Expiry ==
    [][/\ lastOp'.op = "set" => Get(cache', lastOp'.key).timestamp = now'
       /\ \A c \in ModelCalls :
            LET key == generateCacheKey(c[1], c[2])
                entry == Get(cache, key)
            IN  (/\ find(c[1], c[2])
                 /\ Has(cache, key)
                 /\ entry.failureCount < config.maxFailures) =>
                    /\ now <= entry.timestamp + config.defaultTTL - 1 =>
                           lastOp'.entry = entry
                    /\ now >= entry.timestamp + config.defaultTTL + 1 =>
                           /\ ~lastOp'.ret
                           /\ ~Has(cache', key)]_vars

\* a find that met its exact-key entry expired
C4_Witness ==
    /\ lastOp.op = "find"
    /\ lastOp.how = "expired"
    /\ ~lastOp.ret

\* C5 as stated: with an exact-key entry and another fuzzy-eligible entry in
\* the cache, find returns the exact-key entry.
C5_ExactFirst_Original ==
    [][\A c \in ModelCalls :
          (/\ find(c[1], c[2])
           /\ Has(cache, generateCacheKey(c[1], c[2]))
           /\ FuzzyOthers(c[1], c[2]) # {}) =>
              lastOp'.entry = Get(cache, generateCacheKey(c[1], c[2]))]_vars

\* C5 amended: with an exact-key entry and another fuzzy-eligible entry in the
\* cache, find returns the exact-key entry when it is neither expired nor at
\* the failure threshold, and otherwise deletes it and returns nothing; it
\* never returns the other entry.
C5_ExactFirst ==
    [][\A c \in ModelCalls :
          LET key == generateCacheKey(c[1], c[2])
              entry == Get(cache, key)
          IN  (/\ find(c[1], c[2])
               /\ Has(cache, key)
               /\ FuzzyOthers(c[1], c[2]) # {}) =>
                  IF Stale(entry, now)
                  THEN lastOp'.entry = NoEntry /\ ~Has(cache', key)
                  ELSE lastOp'.entry = entry]_vars

\* an exact hit while another entry of the cache was fuzzy-eligible
C5_Witness ==
    /\ lastOp.op = "find"
    /\ lastOp.how = "exact"
    /\ \E c \in ModelCalls :
          /\ generateCacheKey(c[1], c[2]) = lastOp.key
          /\ FuzzyOthers(c[1], c[2]) # {}

\* C6 as stated: every entry a lookup examines and finds expired or at the
\* failure threshold is deleted by the time the lookup returns.
C6_EagerDelete_Original ==
    [][\A c \in ModelCalls :
          find(c[1], c[2]) =>
              \A i \in Examined(c[1], c[2]) :
                  Stale(cache[i], now) => ~Has(cache', cache[i].key)]_vars

\* C6 amended: a lookup never returns an expired or over-threshold entry; it
\* deletes the exact-key entry when that one is expired or over the threshold,
\* and it deletes nothing else: such candidates of the fuzzy scan are skipped
\* and stay in the cache.
C6_EagerDelete ==
    [][\A c \in ModelCalls :
          LET key == generateCacheKey(c[1], c[2])
          IN  find(c[1], c[2]) =>
                 /\ lastOp'.ret => ~Stale(lastOp'.entry, now)
                 /\ (Has(cache, key) /\ Stale(Get(cache, key), now)) =>
                        ~lastOp'.ret /\ ~Has(cache', key)
                 /\ \A i \in 1..Len(cache) :
                        cache[i].key # key => Has(cache', cache[i].key)]_vars

\* a fuzzy scan has passed over an expired entry, which is still cached
C6_Witness ==
    /\ lastOp.op = "find"
    /\ lastOp.how \in {"miss", "fuzzy"}
    /\ \E c \in ModelCalls :
          /\ generateCacheKey(c[1], c[2]) = lastOp.key
          /\ \E i \in Examined(c[1], c[2]) : Stale(cache[i], now)

\* C7: set evicts only when the insertion would make the number of entries
\* exceed maxSize, and then it removes the oldest 20% of the entries by
\* lastSuccess; a set that would not exceed maxSize, such as one that
\* overwrites a stored key, removes no other entry.
C7_EvictOnOverflowOnly ==
    [][lastOp'.op = "set" =>
        LET key == lastOp'.key
            wouldExceed == ~Has(cache, key) /\ Len(cache) + 1 > config.maxSize
            removed == Keys(cache) \ Keys(cache')
        IN  /\ ~wouldExceed => removed = {}
            /\ wouldExceed =>
                  /\ Cardinality(removed) = (Len(cache) * EvictPercent) \div 100
                  /\ \A r \in removed, k \in Keys(cache) \ removed :
                        Get(cache, r).lastSuccess <= Get(cache, k).lastSuccess]_vars

\* C8: normalising a normalised instruction changes nothing.
C8_Idempotent ==
    normPc = "twice" => normTwice = normOnce

\* the actions of plan n performed on the page in this step, in order
PerformedActions(n) ==
    [i \in 1..Len(PerformedOf(n)) |-> PerformedOf(n)[i].action]

\* C9: on the first run of an instruction with caching enabled and an empty
\* cache (the first step of the first flow), the step is a cache miss, the
\* planner is called exactly once, the actions it returned are executed in
\* order, and when the step has succeeded the cache holds an entry under the
\* step's key whose successCount is 1.
C9_FirstRun ==
    [][(/\ pc = "settle"
        /\ flows = 1
        /\ step = 1
        /\ useSelectorCache
        /\ Len(decision.actions) > 0)
       => /\ ~usedCache
          /\ llmCalls = 1
          /\ PerformedActions(1) = decision.actions
          /\ Has(cache', lookupKey)
          /\ Get(cache', lookupKey).successCount = 1]_vars

\* C10: when an instruction is analysed on a page for which the cache holds
\* an entry under the exact key that is neither expired nor at the failure
\* threshold, the step is a cache hit, the planner is not called, and the
\* actions performed on the page are the stored actions, in the stored
\* order.
C10_SecondRun ==
    [][/\ (/\ pc = "analyze"
           /\ pc' # "analyze"
           /\ useSelectorCache
           /\ Has(cache, generateCacheKey(page, flow.steps[step]))
           /\ ~Stale(Get(cache, generateCacheKey(page, flow.steps[step])), now))
          => /\ pc' = "execute"
             /\ usedCache'
             /\ llmCalls' = 0
             /\ cache' = cache
             /\ toCachedActions(decision'.actions)
                  = Get(cache, generateCacheKey(page, flow.steps[step])).actions
       /\ (/\ usedCache'
           /\ llmCalls' = 0
           /\ pc' \in {"execute", "settle"}
           /\ Has(cache', lookupKey'))
          => LET stored == Get(cache', lookupKey').actions
                 done == toCachedActions(PerformedActions(1))'
             IN  /\ Len(done) <= Len(stored)
                 /\ done = SubSeq(stored, 1, Len(done))
                 /\ pc' = "settle" => done = stored]_vars

\* the second flow replays, after a run that succeeded, both stored actions
C10_Witness ==
    /\ flows = 2
    /\ step = 1
    /\ pc = "settle"
    /\ usedCache
    /\ llmCalls = 0
    /\ Has(cache, lookupKey)
    /\ Get(cache, lookupKey).successCount >= 2
    /\ Len(executed) = 2
    /\ toCachedActions(PerformedActions(1)) = Get(cache, lookupKey).actions

\* the step's plan came from the cache, failed, and the planner was asked again
Replanned ==
    /\ usedCache
    /\ pc \in {"reexecute", "catch"} \/ (pc = "settle" /\ error # "")

C12_SourceRemoved ==
    pc = "replan" => ~Has(cache, firstLookup.source)

\* C13: the planner is asked for a new plan only if the failed plan came from
\* the cache and caching is enabled; when a plan of the planner fails, or
\* caching is disabled, the step fails with no second planner call and no
\* further plan executed.
C13_ReplanOnlyFromCache ==
    /\ pc \in {"invalidate", "replan", "reexecute"} => usedCache /\ useSelectorCache
    /\ (~usedCache \/ ~useSelectorCache) =>
          /\ llmCalls <= 1
          /\ PerformedActions(2) = <<>>
          /\ error = ActionFailed => pc = "catch"

\* a plan of the planner has failed, with caching enabled, after one action
C13_Witness ==
    /\ pc = "catch"
    /\ useSelectorCache
    /\ ~usedCache
    /\ error = ActionFailed
    /\ llmCalls = 1
    /\ Len(PerformedActions(1)) = 1

\* C14: within one plan the actions are executed in list order, each one the
\* action that follows the ones already performed, and the step in which an
\* action fails leaves the plan's loop without performing anything: no later
\* action of that plan is executed.
C14_InOrder ==
    [][/\ (executed' # executed /\ executed' # <<>>)
          => /\ pc \in {"execute", "reexecute"}
             /\ LET plan == IF pc = "execute" THEN 1 ELSE 2
                    done == Len(PerformedOf(plan))
                IN  /\ done < Len(decision.actions)
                    /\ executed' = Append(executed,
                          [plan |-> plan, action |-> decision.actions[done + 1]])
                    /\ IF pc = "execute"
                       THEN PerformedActions(1)'
                              = SubSeq(decision.actions, 1, done + 1)
                       ELSE PerformedActions(2)'
                              = SubSeq(decision.actions, 1, done + 1)
       /\ (pc \in {"execute", "reexecute"} /\ pc' \in {"invalidate", "catch"})
          => /\ executed' = executed
             /\ page' = page
             /\ error' # ""
       /\ (pc \in {"invalidate", "replan", "reexecute"})
          => PerformedOf(1)' = PerformedOf(1)
       /\ pc = "catch" => executed' = <<>>]_vars

\* the second action of a plan of two has failed after the first was performed
C14_Witness ==
    /\ pc = "catch"
    /\ error = ActionFailed
    /\ Len(decision.actions) = 2
    /\ PerformedActions(IF usedCache THEN 2 ELSE 1) = <<decision.actions[1]>>

C16_FlowResult ==
    runResult.returned =>
       /\ runResult.totalSteps = Len(runDef.steps)
       /\ runResult.completedSteps = Successes(runResult.steps)
       /\ Len(runResult.steps) = Len(agentResult.steps)
       /\ \A i \in 1..Len(runResult.steps) :
             /\ runResult.steps[i].step = i
             /\ ~runResult.steps[i].success => runResult.steps[i].error # NoValue
       /\ runResult.success <=> runResult.completedSteps = runResult.totalSteps

\* the flow is inside a step
InStep ==
    pc \in {"analyze", "execute", "invalidate", "replan", "reexecute", "settle", "catch"}

\* C17: within one flow the steps are started in declared order, none skipped
\* or reordered: while step i is running, exactly the steps before it have
\* finished, each with its outcome in place and each followed by its
\* stabilization wait, and the instruction the cache and the planner are
\* asked about is the i-th declared one.
C17_DeclaredOrder ==
    /\ InStep =>
          /\ step \in 1..Len(flow.steps)
          /\ Len(stepResults) = step - 1
          /\ waited = step - 1
          /\ \A i \in 1..Len(stepResults) :
                /\ stepResults[i].step = i
                /\ stepResults[i].instruction = flow.steps[i]
          /\ lookupKey # NoKey =>
                lookupKey \in {generateCacheKey(u, flow.steps[step]) : u \in {UrlP, UrlQ}}
          /\ pc = "analyze" => llmCalls = 0 /\ lookupKey = NoKey /\ executed = <<>>
    /\ pc = "finish" => Len(stepResults) \in {step, Len(flow.steps)}

\* the second step is being analysed after the first one failed
C17_Witness ==
    /\ pc = "execute"
    /\ step = 2
    /\ ~flow.stopOnError
    /\ ~stepResults[1].success
    /\ waited = 1
    /\ lookupKey = generateCacheKey(page, flow.steps[2])

\* the callers whose guarded function is in progress on path f
InProgress(f) == {c \in Callers : lockPc[c] = "fn" /\ lockPath[c] = f}

\* C18: for any path, at most one function guarded by withLock on that path
\* is in progress at any time, and it is the one whose promise is in the map:
\* a caller that finds the path locked does not start its function before
\* the function in progress has finished, also when several callers were
\* awaiting the same promise.
C18_MutualExclusion ==
    \A f \in LockPaths :
       /\ Cardinality(InProgress(f)) <= 1
       /\ InProgress(f) = IF locks[f] = NoPromise THEN {} ELSE {locks[f]}
       /\ \A c \in Callers :
             (lockPc[c] = "await" /\ lockPath[c] = f /\ awaiting[c] \notin settled)
                => InProgress(f) = {awaiting[c]}

\* two callers awaited the promise of the first one; it has been resolved, one
\* of the two runs its function and the other awaits that one's promise
C18_Witness ==
    \E a, b, c \in Callers :
       /\ a # b /\ b # c /\ a # c
       /\ lockPath[a] = lockPath[b] /\ lockPath[b] = lockPath[c]
       /\ lockPc[a] = "done"
       /\ lockPc[b] = "fn"
       /\ lockPc[c] = "await"
       /\ awaiting[c] = b
       /\ a \in settled

\* C19: the pool never has more than maxWorkers tasks executing at the same
\* time; each worker executes at most one task at a time, takes its next task
\* only in the step in which its task has ended, and no task is executed by
\* two workers.
C19_AtMostN ==
    /\ Cardinality(running) <= maxWorkers
    /\ \A p, q \in running : (p[1] = q[1] \/ p[2] = q[2]) => p = q
    /\ \A p \in running : p[1] \in 1..maxWorkers /\ p[2] \in 1..currentIndex
    /\ completed + Cardinality(running) = currentIndex

\* both workers are busy, one of them with its second task
C19_Witness ==
    /\ poolPc = "running"
    /\ maxWorkers = 2
    /\ Len(tasks) > maxWorkers
    /\ Cardinality(running) = maxWorkers
    /\ completed = 1
    /\ \E p \in running : p[2] > maxWorkers

\* C20: the pool runs every task exactly once and returns one result per
\* task, a failed result for a task that throws, the results in the order of
\* the tasks whatever the order of completion, also when two tasks have the
\* same id.
C20_OneResultPerTask ==
    poolPc = "returned" =>
       /\ Len(poolReturn) = Len(tasks)
       /\ \A i \in 1..Len(tasks) : runCount[i] = 1
       /\ \A i \in 1..Len(poolReturn) :
             /\ poolReturn[i].from = i
             /\ poolReturn[i].id = tasks[i].id
             /\ poolReturn[i].success = ~tasks[i].throws

\* C21: a planning call that is not served from the cache sends exactly one
\* request to the provider, whether the provider throws, answers a text that
\* does not parse, or answers a plan; a planning call served from the cache
\* sends none. In a step, after its first planning call, the requests sent
\* are one for the first call unless the cache served it, and one for the
\* second call if there was one.
C21_OneRequest ==
    (InStep /\ pc # "analyze") =>
       llmCalls = (IF usedCache THEN 0 ELSE 1) + (IF Replanned THEN 1 ELSE 0)

\* the provider has thrown at the first planning call of a step
C21_Witness ==
    /\ pc = "catch"
    /\ ~usedCache
    /\ error = ProviderFailed
    /\ llmCalls = 1

\* an action descriptor, or a stored action, with the fields it requires
WellShaped(action) ==
    /\ action.type # NoValue
    /\ action.description # NoValue
    /\ action.locator # NoValue

\* C22: when the provider's answer does not parse, or parses without the
\* required shape (a list of action descriptors with their required fields),
\* the planning call fails with the invalid-response error, and nothing of
\* the answer is used or stored: no decision and no cache entry holds a
\* descriptor without its required fields, and no step fails with another
\* error for want of the actions list.
C22_InvalidResponse ==
    /\ \A i \in 1..Len(decision.actions) : WellShaped(decision.actions[i])
    /\ \A i \in 1..Len(cache) :
          \A j \in 1..Len(cache[i].actions) :
             WellShaped(fromCachedAction(cache[i].actions[j]))
    /\ error # NoActionsList

\* C23: an action descriptor whose type is none of the allowed ones is
\* rejected before use: no cache entry holds it, the executor is never given
\* it, and a step whose plan contains it does not succeed.
C23_UnknownKind ==
    /\ \A i \in 1..Len(cache) :
          \A j \in 1..Len(cache[i].actions) :
             cache[i].actions[j].actionType \in ActionTypes
    /\ \A i \in 1..Len(executed) : executed[i].action.type \in ActionTypes
    /\ pc = "settle" =>
          \A i \in 1..Len(decision.actions) : decision.actions[i].type \in ActionTypes

\* C24: findElementByDescription always terminates.  It goes through the
\* strategies at most 2 times and waits only between the two passes; it
\* returns at the first strategy whose element is visible; when no strategy
\* of either pass gave one it fails with the element-not-found error, and no
\* other error leaves it: what a strategy throws is caught.
ResolveBounded ==
    /\ attempt <= 2
    /\ resolveWaits = (IF attempt = 2 THEN 1 ELSE 0)
    /\ Len(tried) <= 2 * Len(strategies(agentKind))
    /\ \A i \in 1..Len(tried) :
          tried[i].outcome = "visible" => (i = Len(tried) /\ resolvePc = "returned")
    /\ resolvePc = "returned" =>
          /\ tried # <<>>
          /\ tried[Len(tried)].outcome = "visible"
          /\ resolveError = ""
    /\ resolvePc = "failed" =>
          /\ resolveError = ElementNotFound
          /\ Len(tried) = 2 * Len(strategies(agentKind))
    /\ resolveError \in {"", ElementNotFound}
C25_FirstInOrder ==
    /\ SubSeq(strategies("core"), 1, 9) =
          <<"selector", "name", "label", "id", "placeholder", "field", "button",
            "type", "text">>
    /\ resolvePc = "returned" =>
          /\ resolvedBy = strategies(agentKind)[strategyIdx]
          /\ runStrategy(agentKind, resolvedBy, hint, matches, document) = Located(resolved)
          /\ document[resolved].visible
          /\ \A j \in 1..(strategyIdx - 1) :
                outcomeOf(runStrategy(agentKind, strategies(agentKind)[j], hint,
                                      matches, document), document) # "visible"
    /\ (/\ resolvePc = "returned" /\ hint = HintName
        /\ \E i \in 1..Len(document) :
              document[i].visible /\ document[i].tag = TagInput /\ document[i].name = WordEmail)
          => (document[resolved].tag = TagInput /\ document[resolved].name = WordEmail)
C25_Witness ==
    /\ resolvePc = "returned"
    /\ agentKind = "core"
    /\ hint = HintName
    /\ document[1] = EmailLink(TRUE)
    /\ document[resolved] = EmailInput(TRUE)
    /\ resolvedBy = "name"

\* C26: a description whose id is a dynamic one (:r12:, mui-1) is never
\* resolved by the id strategy, whatever the page holds.
C26_NoDynamicId ==
    (matches.idMatch # NoMatch /\ isDynamicReactId(matches.idMatch)) => resolvedBy # "id"

\* the state right after the constructor of the second manager read a file
\* of its own version
JustLoaded == restarted /\ lastOp.op = "new" /\ loadHow = "loaded"

\* C27: after a save and a load under the same version tag the cache holds
\* the saved entries, field for field and in their order, except those whose
\* time-to-live has run out at the load and those whose failure count
\* reaches the failure threshold of the loading manager.
C27_RoundTrip ==
    JustLoaded =>
       cache = SelectSeq(reloaded,
                         LAMBDA e : ~isExpired(e, now, config) /\ ~overFailures(e, config))
C27_Witness ==
    /\ JustLoaded
    /\ \E i \in 1..Len(reloaded) : isExpired(reloaded[i], now, config)
    /\ \E i \in 1..Len(reloaded) :
          /\ ~isExpired(reloaded[i], now, config)
          /\ \E j \in 1..Len(reloaded[i].actions) : reloaded[i].actions[j].value # NoValue
          /\ \E j \in 1..Len(reloaded[i].actions) : reloaded[i].actions[j].value = NoValue
          /\ cache = <<reloaded[i]>>
\* C27 as stated: only the entries whose time-to-live ran out are absent
C27_OnlyExpiredAbsent ==
    JustLoaded => cache = SelectSeq(reloaded, LAMBDA e : ~isExpired(e, now, config))

\* C28: after the load of a file of another version the cache is empty, and
\* from then on it holds, and find returns, only entries set since the load.
C28_VersionMismatch ==
    loadHow = "version" =>
       /\ lastOp.op = "new" => cache = <<>>
       /\ Keys(cache) \subseteq setSince
       /\ (lastOp.op = "find" /\ lastOp.entry # NoEntry) => lastOp.entry.key \in setSince
C28_Witness ==
    /\ loadHow = "version"
    /\ reloaded # <<>>
    /\ lastOp.op = "find"
    /\ lastOp.key \in Keys(reloaded)
    /\ lastOp.entry = NoEntry

\* C29: no cache operation ends with an error, a load that could not read
\* the file leaves the cache empty, and an operation whose write failed
\* leaves in memory the entries it computed.
C29_StorageErrors ==
    /\ opError = ""
    /\ (lastOp.op = "new" /\ loadHow = "error") => cache = <<>>
    /\ lastWrite = "failed" => cache = intended
C29_Witness ==
    /\ loadHow = "error"
    /\ reloaded # <<>>
    /\ storage = "failing"
    /\ lastOp.op = "find"
    /\ lastOp.entry # NoEntry
    /\ lastOp.entry.key \in setSince

\* C30: a run whose executeFlow took longer than the timeout of the flow is
\* not reported as passed.
C30_FlowTimeout ==
    (runResult.returned /\ runElapsed > runTimeout) => ~runResult.success

\* the callers that hold a permit: acquire has returned to them, or its
\* promise has been resolved for them, and their release has not run
Holders == {c \in Callers : semPc[c] \in {"acquired", "fn"}}

\* C31: at most semSize functions run inside withPermit, and the permits
\* available plus the permits held are semSize; a waiter holds none.
C31_Permits ==
    /\ Cardinality({c \in Callers : semPc[c] = "fn"}) <= semSize
    /\ permits >= 0
    /\ permits + Cardinality(Holders) = semSize
    /\ \A c \in Callers : semPc[c] = "waiting" <=> \E i \in 1..Len(waiters) : waiters[i] = c
C31_Witness ==
    /\ permits = 0
    /\ Cardinality({c \in Callers : semPc[c] = "fn"}) = semSize
    /\ Len(waiters) > 0
    /\ \E c \in Callers : semPc[c] = "thrown"

\* the call a key of the fuzzy harness was made for: the page and the
\* instruction the entry was stored, or the query was made, with
CallOf(key) == CHOOSE c \in FuzzyCalls : generateCacheKey(c[1], c[2]) = key

FuzzyHit == lastOp.op = "find" /\ lastOp.how = "fuzzy"

\* C32: an entry the fuzzy scan returns was stored for the page pattern of
\* the query, is not expired, is under the failure threshold, and its
\* instruction is similar enough to the query's.
C32_FuzzyEligible ==
    FuzzyHit =>
       /\ extractUrlPattern(CallOf(lastOp.entry.key)[1]) = extractUrlPattern(CallOf(lastOp.key)[1])
       /\ ~isExpired(lastOp.entry, now, config)
       /\ ~overFailures(lastOp.entry, config)
       /\ AtLeastThreshold(
             calculateSimilarity(NormalizedInstructions[CallOf(lastOp.key)[2]],
                                 NormalizedInstructions[CallOf(lastOp.entry.key)[2]]),
             config)

\* C38: an entry the fuzzy scan returns has a word of more than two
\* characters in common with the query's instruction.
C38_CommonWord ==
    FuzzyHit =>
       LongWords(NormalizedInstructions[CallOf(lastOp.key)[2]])
          \cap LongWords(NormalizedInstructions[CallOf(lastOp.entry.key)[2]]) # {}

\* C39: the age of an entry runs from its set: set stamps the entry with
\* the time of the call, markSuccess leaves the stamp of every entry as it
\* is and moves lastSuccess only, and find returns no entry whose stamp is
\* older than the time-to-live, however lately it was marked.
C39_ExpiryFromSet ==
    [][/\ (lastOp'.op = "set") => Get(cache', lastOp'.key).timestamp = now
       /\ (lastOp'.op = "markSuccess" /\ lastOp'.ret) =>
             /\ Len(cache') = Len(cache)
             /\ \A i \in 1..Len(cache) : cache'[i].timestamp = cache[i].timestamp
             /\ Get(cache', lastOp'.key).lastSuccess = now
       /\ (lastOp'.op = "find" /\ lastOp'.entry # NoEntry) =>
             now - lastOp'.entry.timestamp <= config.defaultTTL
       /\ (lastOp'.op = "find" /\ Has(cache, lastOp'.key)
             /\ now - Get(cache, lastOp'.key).timestamp > config.defaultTTL) =>
             (lastOp'.entry = NoEntry /\ lastOp'.how = "expired")]_vars
C39_Witness ==
    \E i \in 1..Len(cache) :
       /\ cache[i].successCount >= 2
       /\ cache[i].lastSuccess = now
       /\ isExpired(cache[i], now, config)
       /\ ~isExpired_fromLastSuccess(cache[i], now, config)

\* the step's plan came from the planner and is being executed
FreshPlan == useSelectorCache /\ ~usedCache /\ Len(decision.actions) > 0

\* the catch of a step whose plan from the planner failed in execution
FreshPlanFailed == pc = "catch" /\ FreshPlan /\ error = ActionFailed

\* the key markFailure is called with in the catch of the step
MarkFailureKey == generateCacheKey(currentUrl, flow.steps[step])

\* C33: a plan of the planner is in the cache, whole and with no failure
\* counted, before its first action is executed; when its execution fails,
\* the entry is still there after the step with one failure counted if
\* markFailure is called with the key of the set and maxFailures is over 1,
\* it is gone if maxFailures is 1, and it is there with no failure counted
\* if markFailure is called with another key.
C33_StoredBeforeExecution ==
    [][/\ (pc = "execute" /\ FreshPlan) =>
             /\ Has(cache, lookupKey)
             /\ Get(cache, lookupKey).actions =
                   [i \in 1..Len(decision.actions) |-> toCachedAction(decision.actions[i])]
             /\ Get(cache, lookupKey).failureCount = 0
       /\ (FreshPlanFailed /\ pc' # "catch") =>
             IF MarkFailureKey # lookupKey
             THEN Has(cache', lookupKey) /\ Get(cache', lookupKey).failureCount = 0
             ELSE IF config.maxFailures > 1
             THEN Has(cache', lookupKey) /\ Get(cache', lookupKey).failureCount = 1
             ELSE ~Has(cache', lookupKey)]_vars
C33_Witness ==
    /\ FreshPlanFailed
    /\ MarkFailureKey = lookupKey
    /\ config.maxFailures > 1
    /\ Len(executed) > 0
    /\ Get(cache, lookupKey).failureCount = 0
\* C33 as stated: after the failed step the entry is there with one failure
C33_StillPresent ==
    [][(FreshPlanFailed /\ pc' # "catch") =>
          (Has(cache', lookupKey) /\ Get(cache', lookupKey).failureCount = 1)]_vars

\* C34: the key invalidate, markSuccess and markFailure are called with in
\* a step is the key of the step's find and set.
C34_SameKey ==
    (useSelectorCache /\ lookupKey # NoKey) =>
       /\ pc = "invalidate" => MarkFailureKey = firstLookup.key
       /\ pc = "settle" => generateCacheKey(page, flow.steps[step]) = lookupKey
       /\ pc = "catch" => MarkFailureKey = lookupKey

\* the catch of a step that calls markFailure with the key of the step's find
MarkedUnderLookup ==
    pc = "catch" /\ useSelectorCache /\ MarkFailureKey = firstLookup.key

ReplacedAfterProgress ==
    /\ usedCache
    /\ llmCalls >= 1
    /\ Len(PerformedOf(1)) >= 1
    /\ pc \in {"reexecute", "settle"} \/ (pc = "catch" /\ error = ActionFailed)

\* how many times the action was performed on the page in this step
TimesPerformed(a) ==
    Cardinality({i \in 1..Len(executed) : executed[i].action = a})

\* C40: after a plan from the cache failed at an action that is not its
\* first, the actions it performed stay performed, the plan that replaces it
\* is executed from its first action with none skipped, and an action of the
\* new plan that the failed plan had performed has then been performed
\* twice in the step.
C40_PerformedAgain ==
    ReplacedAfterProgress =>
       /\ executed = PerformedOf(1) \o PerformedOf(2)
       /\ PerformedActions(2) = SubSeq(decision.actions, 1, Len(PerformedOf(2)))
       /\ pc = "settle" => PerformedActions(2) = decision.actions
       /\ \A i \in 1..Len(PerformedOf(1)), j \in 1..Len(PerformedOf(2)) :
             PerformedOf(1)[i].action = PerformedOf(2)[j].action
                => TimesPerformed(PerformedOf(2)[j].action) >= 2
C40_Witness ==
    /\ ReplacedAfterProgress
    /\ pc = "settle"
    /\ PerformedActions(1) = <<AIClickLogin>>
    /\ PerformedActions(2) = <<AIClickLogin, AIFillEmail>>
    /\ TimesPerformed(AIClickLogin) = 2

\* no saveToDisk of any manager is running or waiting
SavesComplete == fileLock = {} /\ saveWaiters = {}

\* C36: with several managers of one process on the same cache file, once
\* no save is pending the file holds every entry that some manager has set
\* and none has deleted since.
C36_NothingLost ==
    SavesComplete => kept \subseteq Keys(parseEntries(disk.entries))

\* C37: while every fn that holds the lock ends, every call of withLock that
\* waits for a path gets to run its fn, also when other callers keep calling
\* withLock for the same path.
C37_NoStarvation ==
    \A c \in Callers : (lockPc[c] = "await") ~> (lockPc[c] = "fn")

=============================================================================
